---- MODULE Spec2Model ----
(***************************************************************************)
(* Model-preference resolution and model switching of the OpenCode Matrix  *)
(* plugin: ModelManager (src/matrix-client.js), the command handlers that  *)
(* use it (src/unnamed/part_000) and the SQLite tables they share with     *)
(* PreferenceStore (src/test-message.js).                                  *)
(*                                                                         *)
(* JavaScript strings that the code inspects character by character (model *)
(* ids, scope words) are sequences of one-character strings, so that the   *)
(* regular expression of validateModelIdFormat and String.includes are     *)
(* computed, not assumed.                                                  *)
(***************************************************************************)
EXTENDS Integers, Sequences, FiniteSets, TLC

VARIABLES
  env,    \* what initialize() finds: provider list, opencode.json, database file
  mgr,    \* the ModelManager instance: its fields
  store,  \* the tables of data/model-preferences.db
  last,   \* the last call made: operation, id and scope passed, how it ended
  sent,   \* the last message the bot sent to a room
  input,  \* the id a caller is about to pass (format specification)
  now,    \* the clock: day and time of day
  conn,   \* the calls under way that suspend: where each one is
  pstore  \* the PreferenceStore object: its connection and its initialized flag

vars == <<env, mgr, store, last, sent, input, now, conn, pstore>>

---------------------------------------------------------------------------
(* Strings *)

Kimi == <<"c","c","-","o","a","i","c","o","m","p","/","K","i","m","i","-","K","2",".","5">>
DeepSeek == <<"c","c","-","o","a","i","c","o","m","p","/","D","e","e","p","S","e","e","k","-","V","3",".","2">>
Gpt == <<"c","c","-","o","p","e","n","a","i","/","g","p","t","-","5",".","3","-","c","o","d","e","x">>
Claude == <<"c","c","-","c","l","a","u","d","e","/","c","l","a","u","d","e","-","3",".","5","-","s","o","n","n","e","t">>
Gemini == <<"c","c","-","g","e","m","i","n","i","/","g","e","m","i","n","i","-","3","-","f","l","a","s","h","-","p","r","e","v","i","e","w">>

\* ids used as inputs that are not in the default catalog
Ghost == <<"g","h","o","s","t","/","m","o","d","e","l","-","9">>
NoModel == <<"n","o","m","o","d","e","l">>
ABC == <<"a","/","b","/","c">>
ASpaceBC == <<"a"," ","b","/","c">>
DottedProvider == <<"m","y",".","p","r","o","v","i","d","e","r","/","m","o","d","e","l","-","1">>

\* ids of catalogs read from opencode.json or returned by the provider list:
\* the same model under two providers, and an entry the provider list returns
\* with an id only
OpenaiGpt == <<"o", "p", "e", "n", "a", "i", "/", "g", "p", "t", "-", "4", "o">>
AzureGpt == <<"a", "z", "u", "r", "e", "/", "g", "p", "t", "-", "4", "o">>
LiveNameless == <<"l", "i", "v", "e", "/", "m", "-", "1">>

\* scope words
ScopeSession == <<"s","e","s","s","i","o","n">>
ScopeUser == <<"u","s","e","r">>
ScopeRoom == <<"r","o","o","m">>
ScopeGlobal == <<"g","l","o","b","a","l">>
ScopeAll == <<"a","l","l">>
ScopeUserSession == <<"u","s","e","r","+","s","e","s","s","i","o","n">>
ScopeUserRoomSession == <<"u","s","e","r","+","r","o","o","m","+","s","e","s","s","i","o","n">>

\* JavaScript null / undefined in a place that otherwise holds a string
Null == <<"null">>

\* a falsy userId / roomId (undefined or '')
NoId == ""

\* String.prototype.includes
Includes(s, t) ==
  \E i \in 0..(Len(s) - Len(t)) : \A j \in 1..Len(t) : s[i + j] = t[j]

Lower == {"a","b","c","d","e","f","g","h","i","j","k","l","m",
          "n","o","p","q","r","s","t","u","v","w","x","y","z"}
Upper == {"A","B","C","D","E","F","G","H","I","J","K","L","M",
          "N","O","P","Q","R","S","T","U","V","W","X","Y","Z"}
Digit == {"0","1","2","3","4","5","6","7","8","9"}

---------------------------------------------------------------------------
(* Inputs *)

Users == {"@alice:hs", "@bob:hs"}
Rooms == {"!room1:hs"}
UserIdInputs == Users \cup {NoId}
RoomIdInputs == Rooms \cup {NoId}
ScopeInputs == {ScopeSession, ScopeUser, ScopeRoom, ScopeGlobal, ScopeAll,
                ScopeUserSession, ScopeUserRoomSession}

\* the calls of switchModel: two ids of the catalog with every caller and scope,
\* and ids it rejects with a caller and a scope that names every tier
AcceptedIdInputs == {Kimi, DeepSeek}
RejectedIdInputs == {Ghost, NoModel, ABC, ASpaceBC, DottedProvider}
SwitchInputs ==
  (AcceptedIdInputs \X UserIdInputs \X RoomIdInputs \X ScopeInputs)
    \cup (RejectedIdInputs \X {"@alice:hs"} \X {"!room1:hs"} \X {ScopeUserRoomSession})

\* which statement of a switchModel call the database refuses (locked, full):
\* the user upsert, the room upsert or the usage insert, when the call runs it
FaultInputs == {"none", "user", "room", "usage"}

\* rows the usage table can hold before an INSERT fails (disk full)
MaxUsageRows == 1

\* the ids the format check is tried on: every string of at most MaxIdLen
\* characters over FormatAlphabet (one character of each kind the expression
\* tells apart), every string of at most MaxSlashIdLen characters over
\* SlashAlphabet (long enough for two slashes between tokens), and the ids above
MaxIdLen == 3
MaxSlashIdLen == 5
FormatAlphabet == {"a", "Z", "7", ".", "_", "-", "/", " "}
SlashAlphabet == {"a", ".", "/"}
FormatIdInputs ==
  UNION {[1..n -> FormatAlphabet] : n \in 0..MaxIdLen}
    \cup UNION {[1..n -> SlashAlphabet] : n \in 0..MaxSlashIdLen}
    \cup AcceptedIdInputs \cup RejectedIdInputs

---------------------------------------------------------------------------
(* ModelManager *)

\* getDefaultModels(): the ids, in catalog order
getDefaultModels == <<Kimi, DeepSeek, Gpt, Claude, Gemini>>

\* /^[a-zA-Z0-9_-]+\/[a-zA-Z0-9._-]+$/
ProviderChars == Lower \cup Upper \cup Digit \cup {"_", "-"}
NameChars == Lower \cup Upper \cup Digit \cup {".", "_", "-"}

\* the expression without ^ and $: some part of the id has the form
validateModelIdFormat_Unanchored(modelId) ==
  \E k \in 2..(Len(modelId) - 1) :
    /\ modelId[k] = "/"
    /\ modelId[k - 1] \in ProviderChars
    /\ modelId[k + 1] \in NameChars

\* the expression with the same character class on both sides
validateModelIdFormat_DotInProvider(modelId) ==
  \E k \in 2..(Len(modelId) - 1) :
    /\ modelId[k] = "/"
    /\ \A i \in 1..(k - 1) : modelId[i] \in NameChars
    /\ \A i \in (k + 1)..Len(modelId) : modelId[i] \in NameChars

validateModelIdFormat(modelId) ==
  \E k \in 2..(Len(modelId) - 1) :
    /\ modelId[k] = "/"
    /\ \A i \in 1..(k - 1) : modelId[i] \in ProviderChars
    /\ \A i \in (k + 1)..Len(modelId) : modelId[i] \in NameChars

\* no catalog lookup
isModelAvailable_Always(m, modelId) == TRUE

isModelAvailable(m, modelId) ==
  \E i \in 1..Len(m.availableModels) : m.availableModels[i] = modelId

\* Map.prototype.set
MapSet(map, key, value) ==
  [k \in DOMAIN map \cup {key} |-> IF k = key THEN value ELSE map[k]]

\* the room preference looked up before the user preference
getCurrentModel_RoomFirst(m, userId, roomId) ==
  IF roomId # NoId /\ roomId \in DOMAIN m.roomPreferences
    THEN m.roomPreferences[roomId]
  ELSE IF userId # NoId /\ userId \in DOMAIN m.userPreferences
    THEN m.userPreferences[userId]
  ELSE m.currentModel

getCurrentModel(m, userId, roomId) ==
  IF userId # NoId /\ userId \in DOMAIN m.userPreferences
    THEN m.userPreferences[userId]
  ELSE IF roomId # NoId /\ roomId \in DOMAIN m.roomPreferences
    THEN m.roomPreferences[roomId]
  ELSE m.currentModel

\* the constructor: the fields before initialize() has run
Constructor ==
  [ currentModel |-> Kimi,
    userPreferences |-> <<>>,
    roomPreferences |-> <<>>,
    availableModels |-> <<>>,
    db |-> FALSE ]

\* loadAvailableModels: live is the outcome of opencodeContext.client.models.list()
\* (present = a client is configured, ok = the call returned), config the outcome
\* of reading and parsing opencode.json (ok = read and parsed)
loadAvailableModels(m, live, config) ==
  IF live.present /\ live.ok /\ Len(live.models) > 0
    THEN [m EXCEPT !.availableModels = live.models]
  ELSE IF config.ok
    THEN [m EXCEPT !.availableModels = config.models]
  ELSE [m EXCEPT !.availableModels = getDefaultModels]

\* initDatabase: opens is whether new Database(dbPath) and the CREATE TABLE
\* statements succeed; on failure this.db stays unset
initDatabase(m, opens) == [m EXCEPT !.db = opens]

\* loadPreferences: every row of both preference tables is put in the maps
loadPreferences(m, s) ==
  IF ~m.db THEN m
  ELSE [m EXCEPT
         !.userPreferences =
           [u \in DOMAIN m.userPreferences
                    \cup {r.user_id : r \in s.user_model_preferences} |->
              IF \E r \in s.user_model_preferences : r.user_id = u
                THEN (CHOOSE r \in s.user_model_preferences : r.user_id = u).model_id
                ELSE m.userPreferences[u]],
         !.roomPreferences =
           [q \in DOMAIN m.roomPreferences
                    \cup {r.room_id : r \in s.room_model_preferences} |->
              IF \E r \in s.room_model_preferences : r.room_id = q
                THEN (CHOOSE r \in s.room_model_preferences : r.room_id = q).model_id
                ELSE m.roomPreferences[q]]]

\* new ModelManager(ctx) followed by await initialize()
initialize(s, e) ==
  loadPreferences(
    initDatabase(loadAvailableModels(Constructor, e.live, e.config), e.dbOpens),
    s)

\* an INSERT on a table without UNIQUE(user_id)
InsertOrReplaceUser_NoUnique(table, userId, modelId) ==
  table \cup {[user_id |-> userId, model_id |-> modelId, usage_count |-> 0]}

\* INSERT OR REPLACE INTO user_model_preferences (user_id, model_id, updated_at):
\* the row with the same user_id is deleted and a new row inserted; columns not
\* listed take their defaults (usage_count DEFAULT 0)
InsertOrReplaceUser(table, userId, modelId) ==
  {r \in table : r.user_id # userId}
    \cup {[user_id |-> userId, model_id |-> modelId, usage_count |-> 0]}

\* INSERT OR REPLACE INTO room_model_preferences (room_id, model_id, set_by_user, set_at)
InsertOrReplaceRoom(table, roomId, modelId, setBy) ==
  {r \in table : r.room_id # roomId}
    \cup {[room_id |-> roomId, model_id |-> modelId, set_by_user |-> setBy]}

\* A point in time is a day and a time of day, each one digit when written.
DigitOf(n) == <<"0", "1", "2", "3", "4", "5", "6", "7", "8", "9">>[n + 1]

\* SQLite datetime('now'): 'YYYY-MM-DD HH:MM:SS'
datetimeNow(t) == <<DigitOf(t.day), " ", DigitOf(t.tick)>>

\* new Date(...).toISOString(): 'YYYY-MM-DDTHH:MM:SS.sssZ'
toISOString(t) == <<DigitOf(t.day), "T", DigitOf(t.tick), "Z">>

\* recordModelUsage: one row appended to model_usage_stats, stamped with
\* datetime('now'); nothing is done without a database, and a failing INSERT is
\* caught and logged. Of the row, model_id and timestamp are kept: no operation
\* reads user_id, room_id, tokens_used or response_time_ms back
recordModelUsage(m, s, modelId, userId, roomId, fails) ==
  IF ~m.db THEN s
  ELSE IF fails \/ Len(s.model_usage_stats) >= MaxUsageRows THEN s
  ELSE [s EXCEPT !.model_usage_stats =
          Append(@, [model_id |-> modelId, timestamp |-> datetimeNow(now)])]

\* scope.includes('session') || scope.includes('all')
ScopeWords == {ScopeSession, ScopeAll, ScopeUser, ScopeRoom}

\* scope.includes(word), computed once for every scope a caller passes
ScopeIncludes ==
  [scope \in ScopeInputs |-> {word \in ScopeWords : Includes(scope, word)}]

SessionScope(scope) ==
  ScopeSession \in ScopeIncludes[scope] \/ ScopeAll \in ScopeIncludes[scope]

\* scope.includes('user') && userId
UserScope(scope, userId) == ScopeUser \in ScopeIncludes[scope] /\ userId # NoId

\* scope.includes('room') && roomId
RoomScope(scope, roomId) == ScopeRoom \in ScopeIncludes[scope] /\ roomId # NoId

\* result.previous set whatever the scope
PreviousOf_Always(m, scope) == m.currentModel

\* result.previous: null unless the session tier is switched
PreviousOf(m, scope) == IF SessionScope(scope) THEN m.currentModel ELSE Null

\* scope compared with === instead of includes
SessionTier_ExactScope(m, modelId, scope) ==
  IF scope = ScopeSession \/ scope = ScopeAll
    THEN [m EXCEPT !.currentModel = modelId]
    ELSE m

\* this.currentModel assigned whatever the scope
SessionTier_AnyScope(m, modelId, scope) == [m EXCEPT !.currentModel = modelId]

\* the session tier: this.currentModel = modelId
SessionTier(m, modelId, scope) ==
  IF SessionScope(scope) THEN [m EXCEPT !.currentModel = modelId] ELSE m

\* the map left alone when the preference goes to the database
UserTier_StoreOnly(m, modelId, userId, scope) ==
  IF UserScope(scope, userId) /\ ~m.db
    THEN [m EXCEPT !.userPreferences = MapSet(@, userId, modelId)]
    ELSE m

\* the map set only next to a database write
UserTier_NeedsStore(m, modelId, userId, scope) ==
  IF UserScope(scope, userId) /\ m.db
    THEN [m EXCEPT !.userPreferences = MapSet(@, userId, modelId)]
    ELSE m

\* the user tier in memory: this.userPreferences.set(userId, modelId)
UserTier(m, modelId, userId, scope) ==
  IF UserScope(scope, userId)
    THEN [m EXCEPT !.userPreferences = MapSet(@, userId, modelId)]
    ELSE m

\* the room tier in memory: this.roomPreferences.set(roomId, modelId)
RoomTier(m, modelId, roomId, scope) ==
  IF RoomScope(scope, roomId)
    THEN [m EXCEPT !.roomPreferences = MapSet(@, roomId, modelId)]
    ELSE m

\* the user tier in the database, when there is one
UserTierStore(m, s, modelId, userId, scope) ==
  IF UserScope(scope, userId) /\ m.db
    THEN [s EXCEPT !.user_model_preferences = InsertOrReplaceUser(@, userId, modelId)]
    ELSE s

\* the room tier in the database, when there is one
RoomTierStore(m, s, modelId, userId, roomId, scope) ==
  IF RoomScope(scope, roomId) /\ m.db
    THEN [s EXCEPT !.room_model_preferences =
            InsertOrReplaceRoom(@, roomId, modelId,
                                IF userId # NoId THEN userId ELSE "system")]
    ELSE s

Rejected(m, s, outcome) ==
  [mgr |-> m, store |-> s, outcome |-> outcome, previous |-> Null, current |-> Null]

\* switchModel with a recordModelUsage that lets its error through
switchModel_TelemetryThrows(m, s, modelId, userId, roomId, scope, fault) ==
  IF ~validateModelIdFormat(modelId) THEN Rejected(m, s, "InvalidFormat")
  ELSE IF ~isModelAvailable(m, modelId) THEN Rejected(m, s, "ModelUnavailable")
  ELSE IF m.db /\ fault = "usage" THEN Rejected(m, s, "StorageError")
  ELSE [mgr |-> RoomTier(UserTier(SessionTier(m, modelId, scope), modelId,
                                  userId, scope), modelId, roomId, scope),
        store |-> RoomTierStore(m, UserTierStore(m, s, modelId, userId, scope),
                                modelId, userId, roomId, scope),
        outcome |-> "ok",
        previous |-> PreviousOf(m, scope),
        current |-> modelId]

\* switchModel(modelId, {userId, roomId, scope}): the manager and the store after
\* the call, how it ended (outcome) and, when it returned, its result. fault names
\* the statement the database refuses, if any: the error of an upsert leaves
\* what was assigned before it and is thrown again, the error of the usage
\* insert is caught in recordModelUsage
switchModel(m, s, modelId, userId, roomId, scope, fault) ==
  IF ~validateModelIdFormat(modelId) THEN Rejected(m, s, "InvalidFormat")
  ELSE IF ~isModelAvailable(m, modelId) THEN Rejected(m, s, "ModelUnavailable")
  ELSE
    LET m2 == UserTier(SessionTier(m, modelId, scope), modelId, userId, scope)
        m3 == RoomTier(m2, modelId, roomId, scope)
        s2 == UserTierStore(m, s, modelId, userId, scope)
        s3 == RoomTierStore(m, s2, modelId, userId, roomId, scope)
    IN  IF UserScope(scope, userId) /\ m.db /\ fault = "user"
          THEN Rejected(m2, s, "StorageError")
        ELSE IF RoomScope(scope, roomId) /\ m.db /\ fault = "room"
          THEN Rejected(m3, s2, "StorageError")
        ELSE [mgr |-> m3,
              store |-> recordModelUsage(m3, s3, modelId, userId, roomId,
                                         fault = "usage"),
              outcome |-> "ok",
              previous |-> PreviousOf(m, scope),
              current |-> modelId]

---------------------------------------------------------------------------
(* The environment of initialize() *)

NoLive == [present |-> FALSE, ok |-> FALSE, models |-> <<>>]
NoConfig == [ok |-> FALSE, models |-> <<>>]

\* a provider list with ids of every shape: live ids are taken as they come
LiveMixed ==
  [present |-> TRUE, ok |-> TRUE,
   models |-> <<Kimi, <<"a","/","a">>, <<".","/","a">>, <<"a">>, ABC>>]

LiveInputs == {NoLive}
ConfigInputs == {NoConfig}
EnvInputs == [live : LiveInputs, config : ConfigInputs, dbOpens : BOOLEAN]

EmptyStore ==
  [ user_model_preferences |-> {},
    room_model_preferences |-> {},
    model_usage_stats |-> <<>>,
    model_switch_history |-> <<>> ]

\* new PreferenceStore(): db is null (0) and initialized false; opened and
\* closed are the connections new Database() has made and close() has closed
NewPreferenceStore ==
  [ db |-> 0, initialized |-> FALSE, opened |-> {}, closed |-> {} ]

\* the clock at the start of a run
Epoch == [day |-> 0, tick |-> 0]

\* the connections to the database file that call saveUserPreference
Conns == {1, 2}

\* a saveUserPreference call under way: the statement it is at, its arguments,
\* what its SELECT found, how it ended, and the calls the connection has finished
SaveCall(pc, userId, modelId, existing, outcome, finished) ==
  [ pc |-> pc, userId |-> userId, modelId |-> modelId, existing |-> existing,
    outcome |-> outcome, finished |-> finished ]

\* no saveUserPreference call under way
NoCalls == [c \in Conns |-> SaveCall("idle", NoId, Null, FALSE, "none", 0)]

\* the last call made, how it ended and the previous model it returned
Call(op, modelId, scope, outcome, previous) ==
  [ op |-> op, modelId |-> modelId, scope |-> scope, outcome |-> outcome,
    previous |-> previous ]

\* client.sendMessage(roomId, {msgtype: 'm.text', body}): the parts of the body
Message(kind, roomId, user, previous, current, scope, error) ==
  [ kind |-> kind, roomId |-> roomId, user |-> user, previous |-> previous,
    current |-> current, scope |-> scope, error |-> error ]

NoMessage == Message("none", NoId, NoId, Null, Null, Null, "")

\* '默认', shown for a result without previous model
DefaultWord == <<"默","认">>

---------------------------------------------------------------------------
(* One ModelManager instance and its callers *)

Init ==
  /\ env \in EnvInputs
  /\ store = EmptyStore
  /\ mgr = initialize(EmptyStore, env)
  /\ last = Call("new", Null, Null, "ok", Null)
  /\ sent = NoMessage
  /\ input = Null
  /\ now = Epoch
  /\ pstore = NewPreferenceStore
  /\ conn = NoCalls

\* a caller constructs a manager and awaits initialize()
NewManager ==
  /\ mgr' = initialize(store, env)
  /\ last' = Call("new", Null, Null, "ok", Null)
  /\ UNCHANGED <<env, store, sent, input, now, conn, pstore>>

\* a caller calls switchModel on the manager (every statement succeeds)
SwitchModel ==
  \E in \in SwitchInputs :
    \E r \in {switchModel(mgr, store, in[1], in[2], in[3], in[4], "none")} :
      /\ mgr' = r.mgr
      /\ store' = r.store
      /\ last' = Call("switchModel", in[1], in[4], r.outcome, r.previous)
      /\ UNCHANGED <<env, sent, input, now, conn, pstore>>

Next ==
  \/ NewManager
  \/ SwitchModel

Spec == Init /\ [][Next]_vars

---------------------------------------------------------------------------
(* The bot: each command builds its own ModelManager *)

\* the words after "!opencode switch": none, an id, or an id and a scope
ArgsInputs ==
  {<<>>}
    \cup {<<id>> : id \in AcceptedIdInputs \cup RejectedIdInputs}
    \cup {<<id, scope>> : id \in AcceptedIdInputs, scope \in ScopeInputs}

\* handleModelSwitch: "!opencode switch [id] [scope]" sent by sender in roomId
HandleModelSwitch ==
  \E sender \in Users, roomId \in Rooms, args \in ArgsInputs :
    IF Len(args) = 0
      THEN /\ last' = Call("handleModelSwitch", Null, Null, "usage", Null)
           /\ sent' = Message("usage", roomId, NoId, Null, Null, Null, "")
           /\ UNCHANGED <<env, mgr, store, input, now, conn, pstore>>
      ELSE
        LET modelId == args[1]
            scope == IF Len(args) >= 2 THEN args[2] ELSE ScopeSession
        IN \E r \in {switchModel(initialize(store, env), store, modelId,
                                 sender, roomId, scope, "none")} :
             /\ mgr' = r.mgr
             /\ store' = r.store
             /\ last' = Call("handleModelSwitch", modelId, scope, r.outcome, r.previous)
             /\ sent' = IF r.outcome = "ok"
                          THEN Message("switched", roomId, sender,
                                       IF r.previous = Null THEN DefaultWord
                                                            ELSE r.previous,
                                       r.current, scope, "")
                          ELSE Message("switchFailed", roomId, NoId, Null, Null,
                                       Null, r.outcome)
             /\ UNCHANGED <<env, input, now, conn, pstore>>

\* getModelConfig: whether the catalog has an entry for the id (else it throws)
getModelConfig(m, modelId) == isModelAvailable(m, modelId)

\* handleModelCurrent: "!opencode current" sent by sender in roomId; the reply
\* names the model getCurrentModel gives, or the error of getModelConfig
HandleModelCurrent ==
  \E sender \in Users, roomId \in Rooms :
    \E m \in {initialize(store, env)} :
      \E currentModel \in {getCurrentModel(m, sender, roomId)} :
        /\ mgr' = m
        /\ last' = Call("handleModelCurrent", Null, Null,
                        IF getModelConfig(m, currentModel) THEN "ok" ELSE "NotFound",
                        Null)
        /\ sent' = IF getModelConfig(m, currentModel)
                     THEN Message("current", roomId, sender, Null, currentModel,
                                  Null, "")
                     ELSE Message("currentFailed", roomId, NoId, Null, Null, Null,
                                  "NotFound")
        /\ UNCHANGED <<env, store, input, now, conn, pstore>>

NextBot ==
  \/ HandleModelSwitch
  \/ HandleModelCurrent

SpecBot == Init /\ [][NextBot]_vars

---------------------------------------------------------------------------
(* The format check on its own: one id, checked and passed to switchModel *)

InitFormat ==
  /\ env \in EnvInputs \cup [live : {LiveMixed}, config : ConfigInputs, dbOpens : {TRUE}]
  /\ store = EmptyStore
  /\ mgr = initialize(EmptyStore, env)
  /\ last = Call("new", Null, Null, "ok", Null)
  /\ sent = NoMessage
  /\ input \in FormatIdInputs
  /\ now = Epoch
  /\ pstore = NewPreferenceStore
  /\ conn = NoCalls

\* validateModelIdFormat(input)
ValidateModelIdFormat ==
  /\ last.op = "new"
  /\ last' = Call("validateModelIdFormat", input, Null,
                  IF validateModelIdFormat(input) THEN "true" ELSE "false", Null)
  /\ UNCHANGED <<env, mgr, store, sent, input, now, conn, pstore>>

\* switchModel(input, {userId, roomId, scope}) with every tier named
SwitchModelInput ==
  /\ last.op = "new"
  /\ \E r \in {switchModel(mgr, store, input, "@alice:hs", "!room1:hs",
                            ScopeUserRoomSession, "none")} :
       /\ mgr' = r.mgr
       /\ store' = r.store
       /\ last' = Call("switchModel", input, ScopeUserRoomSession, r.outcome,
                       r.previous)
  /\ UNCHANGED <<env, sent, input, now, conn, pstore>>

NextFormat ==
  \/ ValidateModelIdFormat
  \/ SwitchModelInput

SpecFormat == InitFormat /\ [][NextFormat]_vars

---------------------------------------------------------------------------
(* switchModel while statements on the database fail *)

FaultSwitchInputs ==
  AcceptedIdInputs \X {"@alice:hs"} \X {"!room1:hs"} \X ScopeInputs

\* a call together with the statement that was made to fail in it
CallWithFault(op, modelId, scope, outcome, previous, fault) ==
  [ op |-> op, modelId |-> modelId, scope |-> scope, outcome |-> outcome,
    previous |-> previous, fault |-> fault ]

\* switchModel(modelId, {userId, roomId, scope}) in which the INSERT OR REPLACE
\* of the user tier, that of the room tier, or the INSERT of recordModelUsage
\* throws
SwitchModelFault ==
  \E in \in FaultSwitchInputs, fault \in FaultInputs :
    \E r \in {switchModel(mgr, store, in[1], in[2], in[3], in[4], fault)} :
      /\ mgr' = r.mgr
      /\ store' = r.store
      /\ last' = CallWithFault("switchModel", in[1], in[4], r.outcome,
                               r.previous, fault)
      /\ UNCHANGED <<env, sent, input, now, conn, pstore>>

NextFault ==
  \/ NewManager
  \/ SwitchModelFault

SpecFault == Init /\ [][NextFault]_vars

---------------------------------------------------------------------------
(* PreferenceStore (src/test-message.js) on the same database file *)

\* usage_count is kept below this in the runs
MaxUsageCount == 3

\* SELECT id FROM user_model_preferences WHERE user_id = ?
SelectUser(table, userId) == {r \in table : r.user_id = userId}

\* SELECT id FROM room_model_preferences WHERE room_id = ?
SelectRoom(table, roomId) == {r \in table : r.room_id = roomId}

\* UPDATE user_model_preferences SET model_id = ?, ..., usage_count = usage_count + 1
\* WHERE user_id = ?
UpdateUser(table, userId, modelId) ==
  {IF r.user_id = userId
     THEN [r EXCEPT !.model_id = modelId, !.usage_count = @ + 1]
     ELSE r : r \in table}

\* UPDATE room_model_preferences SET model_id = ?, set_by_user = ?, set_at = ?
\* WHERE room_id = ?
UpdateRoom(table, roomId, modelId, setByUser) ==
  {IF r.room_id = roomId
     THEN [r EXCEPT !.model_id = modelId, !.set_by_user = setByUser]
     ELSE r : r \in table}

\* what a PreferenceStore call gives: the tables after it and how it ended
\* ("ok" = the promise resolves, anything else = it rejects with that error)
StoreResult(s, outcome) == [store |-> s, outcome |-> outcome]

\* a saveUserPreference that replaces the row instead of updating it
WriteUserPreference_Replace(s, userId, modelId, existing) ==
  StoreResult([s EXCEPT !.user_model_preferences =
                 {r \in @ : r.user_id # userId}
                   \cup {[user_id |-> userId, model_id |-> modelId,
                          usage_count |-> 1]}], "ok")

\* the second statement of saveUserPreference, chosen by what the SELECT
\* found: the UPDATE, or the INSERT with usage_count 1, which UNIQUE(user_id)
\* refuses when a row for the user is there
WriteUserPreference(s, userId, modelId, existing) ==
  IF existing
    THEN StoreResult([s EXCEPT !.user_model_preferences =
                        UpdateUser(@, userId, modelId)], "ok")
  ELSE IF SelectUser(s.user_model_preferences, userId) # {}
    THEN StoreResult(s, "UniqueConstraint")
  ELSE StoreResult([s EXCEPT !.user_model_preferences =
                      @ \cup {[user_id |-> userId, model_id |-> modelId,
                               usage_count |-> 1]}], "ok")

\* saveUserPreference(userId, modelId): SELECT and write without an await
\* between them
saveUserPreference(s, userId, modelId) ==
  WriteUserPreference(s, userId, modelId,
                      SelectUser(s.user_model_preferences, userId) # {})

\* saveRoomPreference(roomId, modelId, setByUser)
saveRoomPreference(s, roomId, modelId, setByUser) ==
  IF SelectRoom(s.room_model_preferences, roomId) # {}
    THEN StoreResult([s EXCEPT !.room_model_preferences =
                        UpdateRoom(@, roomId, modelId, setByUser)], "ok")
    ELSE StoreResult([s EXCEPT !.room_model_preferences =
                        @ \cup {[room_id |-> roomId, model_id |-> modelId,
                                 set_by_user |-> setByUser]}], "ok")

\* a PreferenceStore call: operation, key, model and how it ended
StoreCall(op, key, modelId, outcome) ==
  [ op |-> op, key |-> key, modelId |-> modelId, outcome |-> outcome ]

PrefsUsers == Users
SetByInputs == {"system"}
PrefsScopeInputs == {ScopeUser, ScopeRoom}
PrefsSwitchInputs ==
  AcceptedIdInputs \X PrefsUsers \X Rooms \X PrefsScopeInputs

\* the database file opens
InitStore == Init /\ env.dbOpens

SaveUserPreference ==
  \E userId \in PrefsUsers, modelId \in AcceptedIdInputs :
    /\ \A r \in SelectUser(store.user_model_preferences, userId) :
         r.usage_count < MaxUsageCount
    /\ \E r \in {saveUserPreference(store, userId, modelId)} :
         /\ store' = r.store
         /\ last' = StoreCall("saveUserPreference", userId, modelId, r.outcome)
    /\ UNCHANGED <<env, mgr, sent, input, now, conn, pstore>>

SaveRoomPreference ==
  \E roomId \in Rooms, modelId \in AcceptedIdInputs, setByUser \in SetByInputs :
    /\ \E r \in {saveRoomPreference(store, roomId, modelId, setByUser)} :
         /\ store' = r.store
         /\ last' = StoreCall("saveRoomPreference", roomId, modelId, r.outcome)
    /\ UNCHANGED <<env, mgr, sent, input, now, conn, pstore>>

\* ModelManager.switchModel writing the same tables
SwitchModelPrefs ==
  \E in \in PrefsSwitchInputs :
    \E r \in {switchModel(mgr, store, in[1], in[2], in[3], in[4], "none")} :
      /\ mgr' = r.mgr
      /\ store' = r.store
      /\ last' = Call("switchModel", in[1], in[4], r.outcome, r.previous)
      /\ UNCHANGED <<env, sent, input, now, conn, pstore>>

NextPrefs ==
  \/ SaveUserPreference
  \/ SaveRoomPreference
  \/ SwitchModelPrefs

SpecPrefs == InitStore /\ [][NextPrefs]_vars

---------------------------------------------------------------------------
(* Usage statistics, switch history and their clean-up *)

\* the days and times of day a run goes through
MaxDay == 1
MaxTick == 1

\* rows written through PreferenceStore.recordUsage / recordSwitch in a run
MaxStatsRows == 1
MaxHistoryRows == 1

\* the byte of a character of a timestamp
Code(c) ==
  CASE c = " " -> 32
    [] c = "T" -> 84
    [] c = "Z" -> 90
    [] OTHER -> 48 + (CHOOSE n \in 0..9 : DigitOf(n) = c)

\* a < b for two TEXT values under SQLite's BINARY collation (memcmp, then length)
TextLess(a, b) ==
  \/ \E i \in 1..Len(a) :
       /\ i <= Len(b)
       /\ \A j \in 1..(i - 1) : a[j] = b[j]
       /\ Code(a[i]) < Code(b[i])
  \/ /\ Len(a) < Len(b)
     /\ \A j \in 1..Len(a) : a[j] = b[j]

\* recordUsage(modelId, options): INSERT INTO model_usage_stats with an ISO
\* timestamp; an error of the statement is logged and thrown on
recordUsage(s, modelId, t, fails) ==
  IF fails THEN StoreResult(s, "StorageError")
  ELSE StoreResult([s EXCEPT !.model_usage_stats =
                      Append(@, [model_id |-> modelId,
                                 timestamp |-> toISOString(t)])], "ok")

\* recordSwitch(userId, roomId, previousModel, newModel, scope): INSERT INTO
\* model_switch_history; an error of the statement is logged and thrown on
recordSwitch(s, userId, roomId, previousModel, newModel, scope, t, fails) ==
  IF fails THEN StoreResult(s, "StorageError")
  ELSE StoreResult([s EXCEPT !.model_switch_history =
                      Append(@, [user_id |-> userId, room_id |-> roomId,
                                 previous_model |-> previousModel,
                                 new_model |-> newModel, scope |-> scope,
                                 timestamp |-> toISOString(t)])], "ok")

\* new Date(Date.now() - daysToKeep * 24 * 60 * 60 * 1000).toISOString()
cutoffDate(t, daysToKeep) == toISOString([t EXCEPT !.day = @ - daysToKeep])

\* a clean-up that prunes the switch history as well
cleanupOldRecords_AllTables(s, t, daysToKeep) ==
  [ store |-> [s EXCEPT
      !.model_usage_stats =
        SelectSeq(@, LAMBDA r : ~TextLess(r.timestamp, cutoffDate(t, daysToKeep))),
      !.model_switch_history =
        SelectSeq(@, LAMBDA r : ~TextLess(r.timestamp, cutoffDate(t, daysToKeep)))],
    outcome |-> "ok",
    recordsDeleted |->
      Len(s.model_usage_stats)
        - Len(SelectSeq(s.model_usage_stats,
                        LAMBDA r : ~TextLess(r.timestamp, cutoffDate(t, daysToKeep)))) ]

\* cleanupOldRecords(daysToKeep): DELETE FROM model_usage_stats WHERE timestamp < ?
cleanupOldRecords(s, t, daysToKeep) ==
  [ store |-> [s EXCEPT
      !.model_usage_stats =
        SelectSeq(@, LAMBDA r : ~TextLess(r.timestamp, cutoffDate(t, daysToKeep)))],
    outcome |-> "ok",
    recordsDeleted |->
      Len(s.model_usage_stats)
        - Len(SelectSeq(s.model_usage_stats,
                        LAMBDA r : ~TextLess(r.timestamp, cutoffDate(t, daysToKeep)))) ]

DaysToKeepInputs == {1, 2}

\* a cleanupOldRecords call and what it returned
CleanupCall(daysToKeep, outcome, recordsDeleted) ==
  [ op |-> "cleanupOldRecords", daysToKeep |-> daysToKeep, outcome |-> outcome,
    recordsDeleted |-> recordsDeleted ]

\* time passes
Tick ==
  /\ \/ now.tick < MaxTick /\ now' = [now EXCEPT !.tick = @ + 1]
     \/ now.tick = MaxTick /\ now.day < MaxDay
          /\ now' = [day |-> now.day + 1, tick |-> 0]
  /\ UNCHANGED <<env, mgr, store, last, sent, input, conn, pstore>>

RecordUsage ==
  \E fails \in BOOLEAN :
    /\ Len(store.model_usage_stats) < MaxStatsRows
    /\ \E r \in {recordUsage(store, Kimi, now, fails)} :
         /\ store' = r.store
         /\ last' = StoreCall("recordUsage", NoId, Kimi, r.outcome)
    /\ UNCHANGED <<env, mgr, sent, input, now, conn, pstore>>

RecordSwitch ==
  \E fails \in BOOLEAN :
    /\ Len(store.model_switch_history) < MaxHistoryRows
    /\ \E r \in {recordSwitch(store, "@alice:hs", "!room1:hs", Kimi, DeepSeek,
                              ScopeSession, now, fails)} :
         /\ store' = r.store
         /\ last' = StoreCall("recordSwitch", "@alice:hs", DeepSeek, r.outcome)
    /\ UNCHANGED <<env, mgr, sent, input, now, conn, pstore>>

\* ModelManager.recordModelUsage writing into the same table
RecordModelUsage ==
  \E fails \in BOOLEAN :
    /\ store' = recordModelUsage(mgr, store, DeepSeek, "@alice:hs", "!room1:hs", fails)
    /\ last' = StoreCall("recordModelUsage", "@alice:hs", DeepSeek, "ok")
    /\ UNCHANGED <<env, mgr, sent, input, now, conn, pstore>>

CleanupOldRecords ==
  \E daysToKeep \in DaysToKeepInputs :
    /\ now.day >= daysToKeep
    /\ \E r \in {cleanupOldRecords(store, now, daysToKeep)} :
         /\ store' = r.store
         /\ last' = CleanupCall(daysToKeep, r.outcome, r.recordsDeleted)
    /\ UNCHANGED <<env, mgr, sent, input, now, conn, pstore>>

NextUsage ==
  \/ Tick
  \/ RecordUsage
  \/ RecordSwitch
  \/ RecordModelUsage
  \/ CleanupOldRecords

SpecUsage == InitStore /\ [][NextUsage]_vars

---------------------------------------------------------------------------
(* saveUserPreference from two connections on the same database file *)

\* Within one process the SELECT and the write of saveUserPreference run
\* without an await between them; two processes, each with its own
\* connection, interleave statement by statement: no transaction spans the two.
\* calls each connection makes in a run
MaxCallsPerConn == 2

\* a connection calls saveUserPreference(userId, modelId)
BeginSave(c) ==
  /\ conn[c].pc \in {"idle", "done"}
  /\ conn[c].finished < MaxCallsPerConn
  /\ \E modelId \in AcceptedIdInputs :
       conn' = [conn EXCEPT ![c] = SaveCall("select", "@alice:hs", modelId,
                                            FALSE, "pending", @.finished)]
  /\ UNCHANGED <<env, mgr, store, last, sent, input, now, pstore>>

\* existingStmt.get(userId)
SelectStep(c) ==
  /\ conn[c].pc = "select"
  /\ conn' = [conn EXCEPT ![c].pc = "write",
                          ![c].existing =
                            SelectUser(store.user_model_preferences,
                                       conn[c].userId) # {}]
  /\ UNCHANGED <<env, mgr, store, last, sent, input, now, pstore>>

\* updateStmt.run(...) or insertStmt.run(...), then return or throw
WriteStep(c) ==
  /\ conn[c].pc = "write"
  /\ \E r \in {WriteUserPreference(store, conn[c].userId, conn[c].modelId,
                                   conn[c].existing)} :
       /\ store' = r.store
       /\ conn' = [conn EXCEPT ![c].pc = "done", ![c].outcome = r.outcome,
                               ![c].finished = @ + 1]
       /\ last' = StoreCall("saveUserPreference", conn[c].userId,
                            conn[c].modelId, r.outcome)
  /\ UNCHANGED <<env, mgr, sent, input, now, pstore>>

NextRace ==
  \E c \in Conns :
    \/ BeginSave(c)
    \/ SelectStep(c)
    \/ WriteStep(c)

SpecRace == InitStore /\ [][NextRace]_vars

---------------------------------------------------------------------------
(* Detection of a model switch in a natural-language message *)

\* A character outside ASCII is written by its code point: "U5207" is the one
\* character 切.

UpperLetters ==
  <<"A","B","C","D","E","F","G","H","I","J","K","L","M",
    "N","O","P","Q","R","S","T","U","V","W","X","Y","Z">>
LowerLetters ==
  <<"a","b","c","d","e","f","g","h","i","j","k","l","m",
    "n","o","p","q","r","s","t","u","v","w","x","y","z">>

\* String.prototype.toLowerCase
toLowerCase(s) ==
  [i \in 1..Len(s) |->
     IF \E k \in 1..Len(UpperLetters) : UpperLetters[k] = s[i]
       THEN LowerLetters[CHOOSE k \in 1..Len(UpperLetters) : UpperLetters[k] = s[i]]
       ELSE s[i]]

\* the name field of the entries of getDefaultModels
DefaultModelNames ==
  << <<"K", "i", "m", "i", " ", "K", "2", ".", "5">>,
     <<"D", "e", "e", "p", "S", "e", "e", "k", " ", "V", "3", ".", "2">>,
     <<"G", "P", "T", " ", "5", ".", "3", " ", "C", "o", "d", "e", "x">>,
     <<"C", "l", "a", "u", "d", "e", " ", "3", ".", "5", " ", "S", "o", "n", "n", "e", "t">>,
     <<"G", "e", "m", "i", "n", "i", " ", "3", " ", "F", "l", "a", "s", "h", " ", "P", "r", "e", "v", "i", "e", "w">> >>

\* a property that is not there
Undefined == <<"undefined">>

\* the entries of the provider list that carry no name: client.models.list()
\* is taken as it comes (this.availableModels = models)
NamelessIds == {LiveNameless}

\* model.name: the name of a default entry; for an entry read from
\* opencode.json, modelConfig.name || modelId, here the key of the model under
\* its provider (no name is configured); undefined for a nameless live entry
NameOf(modelId) ==
  IF \E i \in 1..Len(getDefaultModels) : getDefaultModels[i] = modelId
    THEN DefaultModelNames[CHOOSE i \in 1..Len(getDefaultModels) :
                             getDefaultModels[i] = modelId]
  ELSE IF modelId \in NamelessIds THEN Undefined
  ELSE IF \E k \in 1..Len(modelId) : modelId[k] = "/"
    THEN SubSeq(modelId,
                1 + CHOOSE k \in 1..Len(modelId) :
                      modelId[k] = "/" /\ \A j \in 1..(k - 1) : modelId[j] # "/",
                Len(modelId))
  ELSE modelId

\* model.id.split('/')[1]?.toLowerCase() || ''
ModelNamePart(modelId) ==
  IF \E k \in 1..Len(modelId) : modelId[k] = "/"
    THEN LET first == CHOOSE k \in 1..Len(modelId) :
                        modelId[k] = "/" /\ \A j \in 1..(k - 1) : modelId[j] # "/"
             rest == SubSeq(modelId, first + 1, Len(modelId))
             stop == IF \E k \in 1..Len(rest) : rest[k] = "/"
                       THEN (CHOOSE k \in 1..Len(rest) :
                               rest[k] = "/" /\ \A j \in 1..(k - 1) : rest[j] # "/") - 1
                       ELSE Len(rest)
         IN  toLowerCase(SubSeq(rest, 1, stop))
    ELSE <<>>

\* s.match(/(\d+\.\d+)/): the leftmost digits '.' digits, as long as it goes;
\* <<>> without a match
VersionMatch(s) ==
  LET starts == {i \in 1..Len(s) :
                   \E j \in i..(Len(s) - 2) :
                     /\ \A x \in i..j : s[x] \in Digit
                     /\ s[j + 1] = "."
                     /\ s[j + 2] \in Digit}
  IN  IF starts = {} THEN <<>>
      ELSE LET i == CHOOSE a \in starts : \A b \in starts : a <= b
               dot == CHOOSE j \in i..Len(s) :
                        s[j] = "." /\ \A x \in i..(j - 1) : s[x] \in Digit
               end == CHOOSE e \in (dot + 1)..Len(s) :
                         /\ \A x \in (dot + 1)..e : s[x] \in Digit
                         /\ e = Len(s) \/ s[e + 1] \notin Digit
           IN  SubSeq(s, i, end)

\* keyword.match(/^\d+\.\d+$/)
IsVersion(keyword) ==
  \E d \in 2..(Len(keyword) - 1) :
    /\ keyword[d] = "."
    /\ \A x \in 1..Len(keyword) : x # d => keyword[x] \in Digit

\* [...new Set(keywords)]: the first occurrence of every keyword
RECURSIVE Unique(_)
Unique(seq) ==
  IF seq = <<>> THEN <<>>
  ELSE LET front == Unique(SubSeq(seq, 1, Len(seq) - 1))
           x == seq[Len(seq)]
       IN  IF \E i \in 1..Len(front) : front[i] = x THEN front
           ELSE Append(front, x)

\* the brand keywords: deepseek 深度求索, kimi 月之暗面, gpt openai chatgpt,
\* claude anthropic, gemini 谷歌
BrandKeywords(displayName) ==
  (IF Includes(displayName, <<"d", "e", "e", "p", "s", "e", "e", "k">>)
     THEN << <<"d", "e", "e", "p", "s", "e", "e", "k">>, <<"U6DF1", "U5EA6", "U6C42", "U7D22">> >> ELSE <<>>)
  \o (IF Includes(displayName, <<"k", "i", "m", "i">>)
        THEN << <<"k", "i", "m", "i">>, <<"U6708", "U4E4B", "U6697", "U9762">> >> ELSE <<>>)
  \o (IF Includes(displayName, <<"g", "p", "t">>)
        THEN << <<"g", "p", "t">>, <<"o", "p", "e", "n", "a", "i">>, <<"c", "h", "a", "t", "g", "p", "t">> >> ELSE <<>>)
  \o (IF Includes(displayName, <<"c", "l", "a", "u", "d", "e">>)
        THEN << <<"c", "l", "a", "u", "d", "e">>, <<"a", "n", "t", "h", "r", "o", "p", "i", "c">> >> ELSE <<>>)
  \o (IF Includes(displayName, <<"g", "e", "m", "i", "n", "i">>)
        THEN << <<"g", "e", "m", "i", "n", "i">>, <<"U8C37", "U6B4C">> >> ELSE <<>>)

\* the brand names that score 4
BrandNames ==
  { <<"d", "e", "e", "p", "s", "e", "e", "k">>,
    <<"k", "i", "m", "i">>,
    <<"g", "p", "t">>,
    <<"o", "p", "e", "n", "a", "i">>,
    <<"c", "l", "a", "u", "d", "e">>,
    <<"g", "e", "m", "i", "n", "i">>,
    <<"U6DF1", "U5EA6", "U6C42", "U7D22">>,
    <<"U6708", "U4E4B", "U6697", "U9762">>,
    <<"U8C37", "U6B4C">> }

\* getModelAliases
getModelAliases ==
  << [alias |-> <<"f", "a", "s", "t">>, modelId |-> DeepSeek],
     [alias |-> <<"s", "m", "a", "r", "t">>, modelId |-> Gpt],
     [alias |-> <<"c", "o", "d", "e">>, modelId |-> Gpt],
     [alias |-> <<"c", "h", "a", "t">>, modelId |-> Kimi],
     [alias |-> <<"d", "e", "f", "a", "u", "l", "t">>, modelId |-> Kimi] >>

AliasKeywords(modelId) ==
  LET mine == SelectSeq(getModelAliases, LAMBDA a : a.modelId = modelId)
  IN  [i \in 1..Len(mine) |-> toLowerCase(mine[i].alias)]

\* the keywords of a model in ModelManager.detectSwitchIntent: name part of the
\* id, display name, brand names, version number, then the aliases
ModelKeywords(modelId) ==
  LET modelName == ModelNamePart(modelId)
      displayName == toLowerCase(NameOf(modelId))
      version == VersionMatch(displayName)
  IN  Unique((IF modelName # <<>> THEN <<modelName>> ELSE <<>>)
               \o <<displayName>>
               \o BrandKeywords(displayName)
               \o (IF version # <<>> THEN <<version>> ELSE <<>>))
        \o AliasKeywords(modelId)

\* the keywords of a model in the handler's detectModelSwitchIntent: the same
\* without the version number
HandlerModelKeywords(modelId) ==
  LET modelName == ModelNamePart(modelId)
      displayName == toLowerCase(NameOf(modelId))
  IN  Unique((IF modelName # <<>> THEN <<modelName>> ELSE <<>>)
               \o <<displayName>>
               \o BrandKeywords(displayName))
        \o AliasKeywords(modelId)

\* every id an entry of a catalog has
CatalogIds ==
  {getDefaultModels[i] : i \in 1..Len(getDefaultModels)}
    \cup {LiveMixed.models[i] : i \in 1..Len(LiveMixed.models)}
    \cup {OpenaiGpt, AzureGpt, LiveNameless}

\* modelKeywords[model.id] of both detections, computed once for every id
KeywordsOf == [modelId \in CatalogIds |-> ModelKeywords(modelId)]
HandlerKeywordsOf == [modelId \in CatalogIds |-> HandlerModelKeywords(modelId)]

\* a scoring that gives every keyword the points of a version number
KeywordScore_Flat(keyword, modelId) == 10

\* the score of one keyword found in the message
KeywordScore(keyword, modelId) ==
  IF IsVersion(keyword) THEN 10
  ELSE IF \E i \in 1..Len(keyword) : keyword[i] = "/" THEN 8
  ELSE IF keyword = ModelNamePart(modelId) THEN 6
  ELSE IF keyword \in BrandNames THEN 4
  ELSE 2

RECURSIVE SumScores(_, _, _)
SumScores(lowerMessage, keywords, modelId) ==
  IF keywords = <<>> THEN 0
  ELSE SumScores(lowerMessage, Tail(keywords), modelId)
         + (IF Includes(lowerMessage, Head(keywords))
              THEN KeywordScore(Head(keywords), modelId) ELSE 0)

\* a loop that lets a later model with the same score win
RECURSIVE BestModel_LastWins(_, _, _, _)
BestModel_LastWins(lowerMessage, models, i, best) ==
  IF i > Len(models) THEN best
  ELSE LET modelScore == SumScores(lowerMessage, KeywordsOf[models[i]], models[i])
       IN  BestModel_LastWins(lowerMessage, models, i + 1,
                              IF modelScore > 0 /\ modelScore >= best.score
                                THEN [modelId |-> models[i], score |-> modelScore]
                                ELSE best)

\* the loop over the models: the first model with the highest score above 0
RECURSIVE BestModel(_, _, _, _)
BestModel(lowerMessage, models, i, best) ==
  IF i > Len(models) THEN best
  ELSE LET modelScore == SumScores(lowerMessage, KeywordsOf[models[i]], models[i])
       IN  BestModel(lowerMessage, models, i + 1,
                     IF modelScore > 0 /\ modelScore > best.score
                       THEN [modelId |-> models[i], score |-> modelScore]
                       ELSE best)

\* lowerMessage.includes(keyword) for one of the keywords
IncludesAny(lowerMessage, keywords) ==
  \E k \in 1..Len(keywords) : Includes(lowerMessage, keywords[k])

\* the loop of the handler: the first model one of whose keywords is in the message
FirstModel(lowerMessage, models) ==
  IF \E i \in 1..Len(models) : IncludesAny(lowerMessage, HandlerKeywordsOf[models[i]])
    THEN models[CHOOSE i \in 1..Len(models) :
                  /\ IncludesAny(lowerMessage, HandlerKeywordsOf[models[i]])
                  /\ \A j \in 1..(i - 1) :
                       ~IncludesAny(lowerMessage, HandlerKeywordsOf[models[j]])]
    ELSE Null

\* 切换 换成 使用 改用 改为 换到 切到 用 切换到 switch use change set select choose
\* 保存 偏好 设置 设为 指定 选取
switchKeywords ==
  { <<"U5207", "U6362">>,
    <<"U6362", "U6210">>,
    <<"U4F7F", "U7528">>,
    <<"U6539", "U7528">>,
    <<"U6539", "U4E3A">>,
    <<"U6362", "U5230">>,
    <<"U5207", "U5230">>,
    <<"U7528">>,
    <<"U5207", "U6362", "U5230">>,
    <<"s", "w", "i", "t", "c", "h">>,
    <<"u", "s", "e">>,
    <<"c", "h", "a", "n", "g", "e">>,
    <<"s", "e", "t">>,
    <<"s", "e", "l", "e", "c", "t">>,
    <<"c", "h", "o", "o", "s", "e">>,
    <<"U4FDD", "U5B58">>,
    <<"U504F", "U597D">>,
    <<"U8BBE", "U7F6E">>,
    <<"U8BBE", "U4E3A">>,
    <<"U6307", "U5B9A">>,
    <<"U9009", "U53D6">> }

\* 切换 换成 使用 改用 改为 换到 切到 用 切换到
HandlerSwitchKeywords ==
  { <<"U5207", "U6362">>,
    <<"U6362", "U6210">>,
    <<"U4F7F", "U7528">>,
    <<"U6539", "U7528">>,
    <<"U6539", "U4E3A">>,
    <<"U6362", "U5230">>,
    <<"U5207", "U5230">>,
    <<"U7528">>,
    <<"U5207", "U6362", "U5230">> }

\* scopeKeywords, in the order of Object.entries: session 会话 临时 本次 这次 当前,
\* user 用户 个人 我的 自己 为我, room 房间 群聊 这里 本房间, global 全局 全部 所有 系统,
\* each with its English words
scopeKeywords ==
  << [scope |-> ScopeSession, words |->
        { <<"U4F1A", "U8BDD">>,
          <<"U4E34", "U65F6">>,
          <<"U672C", "U6B21">>,
          <<"U8FD9", "U6B21">>,
          <<"U5F53", "U524D">>,
          <<"s", "e", "s", "s", "i", "o", "n">>,
          <<"t", "e", "m", "p", "o", "r", "a", "r", "y">> }],
     [scope |-> ScopeUser, words |->
        { <<"U7528", "U6237">>,
          <<"U4E2A", "U4EBA">>,
          <<"U6211", "U7684">>,
          <<"U81EA", "U5DF1">>,
          <<"U4E3A", "U6211">>,
          <<"u", "s", "e", "r">>,
          <<"p", "e", "r", "s", "o", "n", "a", "l">>,
          <<"m", "y">>,
          <<"m", "e">> }],
     [scope |-> ScopeRoom, words |->
        { <<"U623F", "U95F4">>,
          <<"U7FA4", "U804A">>,
          <<"U8FD9", "U91CC">>,
          <<"U672C", "U623F", "U95F4">>,
          <<"r", "o", "o", "m">>,
          <<"c", "h", "a", "t">>,
          <<"g", "r", "o", "u", "p">> }],
     [scope |-> ScopeGlobal, words |->
        { <<"U5168", "U5C40">>,
          <<"U5168", "U90E8">>,
          <<"U6240", "U6709">>,
          <<"U7CFB", "U7EDF">>,
          <<"g", "l", "o", "b", "a", "l">>,
          <<"a", "l", "l">>,
          <<"s", "y", "s", "t", "e", "m">> }] >>

\* the same table in the handler, without the English words
HandlerScopeKeywords ==
  << [scope |-> ScopeSession, words |->
        { <<"U4F1A", "U8BDD">>,
          <<"U4E34", "U65F6">>,
          <<"U672C", "U6B21">>,
          <<"U8FD9", "U6B21">>,
          <<"U5F53", "U524D">> }],
     [scope |-> ScopeUser, words |->
        { <<"U7528", "U6237">>,
          <<"U4E2A", "U4EBA">>,
          <<"U6211", "U7684">>,
          <<"U81EA", "U5DF1">>,
          <<"U4E3A", "U6211">> }],
     [scope |-> ScopeRoom, words |->
        { <<"U623F", "U95F4">>,
          <<"U7FA4", "U804A">>,
          <<"U8FD9", "U91CC">>,
          <<"U672C", "U623F", "U95F4">> }],
     [scope |-> ScopeGlobal, words |->
        { <<"U5168", "U5C40">>,
          <<"U5168", "U90E8">>,
          <<"U6240", "U6709">>,
          <<"U7CFB", "U7EDF">> }] >>

\* the scope loop: a word of a scope sets detectedScope to that scope, and the
\* loop stops as soon as detectedScope is not 'session'
RECURSIVE DetectScope(_, _, _, _)
DetectScope(lowerMessage, table, i, detectedScope) ==
  IF i > Len(table) THEN detectedScope
  ELSE LET found == IF \E word \in table[i].words : Includes(lowerMessage, word)
                      THEN table[i].scope ELSE detectedScope
       IN  IF found # ScopeSession THEN found
           ELSE DetectScope(lowerMessage, table, i + 1, found)

\* 永久 保存 偏好 persistent preference
permanentKeywords ==
  { <<"U6C38", "U4E45">>,
    <<"U4FDD", "U5B58">>,
    <<"U504F", "U597D">>,
    <<"p", "e", "r", "s", "i", "s", "t", "e", "n", "t">>,
    <<"p", "r", "e", "f", "e", "r", "e", "n", "c", "e">> }

\* 永久 保存 偏好
HandlerPermanentKeywords ==
  { <<"U6C38", "U4E45">>,
    <<"U4FDD", "U5B58">>,
    <<"U504F", "U597D">> }

\* what detection returns when it finds a switch
Intent(modelId, scope, confidence) ==
  [ intent |-> "switch_model", modelId |-> modelId, scope |-> scope,
    confidence |-> confidence ]

NoIntent == [ intent |-> "null" ]

\* model.name.toLowerCase() on an entry without name: TypeError
Thrown == [ intent |-> "TypeError" ]

\* an entry of the catalog has no name
SomeNameless(models) == \E i \in 1..Len(models) : NameOf(models[i]) = Undefined

\* the scope part of both detections: the scope loop, then the permanent words
ScopeOf(lowerMessage, table, permanent) ==
  IF \E word \in permanent : Includes(lowerMessage, word)
    THEN ScopeUser
    ELSE DetectScope(lowerMessage, table, 1, ScopeSession)

\* the end of detectSwitchIntent, from the best model and its score
ScoredIntent(lowerMessage, best) ==
  IF best.modelId = Null THEN NoIntent
  ELSE Intent(best.modelId,
              ScopeOf(lowerMessage, scopeKeywords, permanentKeywords),
              IF best.score >= 10 THEN "high"
              ELSE IF best.score >= 5 THEN "medium" ELSE "low")

\* the end of detectModelSwitchIntent, from the matched model: the confidence
\* is 'high' when a keyword of the matched model is in the message, which is
\* how the model was matched
MatchedIntent(lowerMessage, matchedModelId) ==
  IF matchedModelId = Null THEN NoIntent
  ELSE Intent(matchedModelId,
              ScopeOf(lowerMessage, HandlerScopeKeywords, HandlerPermanentKeywords),
              IF IncludesAny(lowerMessage, HandlerKeywordsOf[matchedModelId])
                THEN "high" ELSE "medium")

\* detectSwitchIntent after the lower-casing
DetectLower(models, lowerMessage) ==
  IF ~\E keyword \in switchKeywords : Includes(lowerMessage, keyword)
    THEN NoIntent
  ELSE IF SomeNameless(models) THEN Thrown
  ELSE ScoredIntent(lowerMessage,
                    BestModel(lowerMessage, models, 1,
                              [modelId |-> Null, score |-> -1]))

\* a detection that goes on without a trigger word
detectSwitchIntent_NoTriggerGate(m, message) ==
  ScoredIntent(toLowerCase(message),
               BestModel(toLowerCase(message), m.availableModels, 1,
                         [modelId |-> Null, score |-> -1]))

\* ModelManager.detectSwitchIntent(message)
detectSwitchIntent(m, message) ==
  DetectLower(m.availableModels, toLowerCase(message))

\* detectModelSwitchIntent after the lower-casing
HandlerDetectLower(models, lowerMessage) ==
  IF ~\E keyword \in HandlerSwitchKeywords : Includes(lowerMessage, keyword)
    THEN NoIntent
  ELSE IF SomeNameless(models) THEN Thrown
  ELSE MatchedIntent(lowerMessage, FirstModel(lowerMessage, models))

\* detectModelSwitchIntent(message, modelManager) of the message handler
detectModelSwitchIntent(message, m) ==
  HandlerDetectLower(m.availableModels, toLowerCase(message))

\* The messages: an opening, a model, a scope and an ending, each possibly absent.
\* '', 切换到 , Switch to , 请问 , 今天
OpeningInputs ==
  { <<>>, <<"U5207", "U6362", "U5230", " ">>, <<"S", "w", "i", "t", "c", "h", " ", "t", "o", " ">>, <<"U8BF7", "U95EE", " ">>, <<"U4ECA", "U5929">> }

\* '', deepseek, kimi-k2.5, GPT 5.3, fast, anthropic
ModelWordInputs ==
  { <<>>, <<"d", "e", "e", "p", "s", "e", "e", "k">>, <<"k", "i", "m", "i", "-", "k", "2", ".", "5">>, <<"G", "P", "T", " ", "5", ".", "3">>, <<"f", "a", "s", "t">>, <<"a", "n", "t", "h", "r", "o", "p", "i", "c">> }

\* '',  临时,  我的,  房间,  全局,  临时房间
ScopeWordInputs ==
  { <<>>, <<" ", "U4E34", "U65F6">>, <<" ", "U6211", "U7684">>, <<" ", "U623F", "U95F4">>, <<" ", "U5168", "U5C40">>, <<" ", "U4E34", "U65F6", "U623F", "U95F4">> }

\* '',  永久,  永久保存,  persistent
EndingInputs ==
  { <<>>, <<" ", "U6C38", "U4E45">>, <<" ", "U6C38", "U4E45", "U4FDD", "U5B58">>, <<" ", "p", "e", "r", "s", "i", "s", "t", "e", "n", "t">> }

\* 今天天气怎么样
Weather == <<"U4ECA", "U5929", "U5929", "U6C14", "U600E", "U4E48", "U6837">>

\* 切换到 deepseek 永久保存
SwitchToDeepseekForGood == <<"U5207", "U6362", "U5230", " ", "d", "e", "e", "p", "s", "e", "e", "k", " ", "U6C38", "U4E45", "U4FDD", "U5B58">>

MessageInputs ==
  {a \o b \o c \o d : a \in OpeningInputs, b \in ModelWordInputs,
                      c \in ScopeWordInputs, d \in EndingInputs}
    \cup {Weather, SwitchToDeepseekForGood}

\* a detection call and what it returned
IntentCall(op, intent) == [ op |-> op, outcome |-> "ok", intent |-> intent ]

\* What fails while handleNaturalLanguage runs, if anything: a statement of
\* switchModel (FaultInputs), client.sendMessage of the confirmation, or
\* client.setTyping before the detection or after the confirmation
HandlerFaultInputs == FaultInputs \cup {"send", "typingOff", "typingOn"}

\* detection has not run
NotRun == [ intent |-> "none" ]

\* a handleNaturalLanguage call: what the detection returned, what failed, how
\* the switch branch ended, whether switchModel returned (switched), whether
\* the confirmation was sent (confirmed) and whether opencodeClient.session.prompt
\* or callAIApi was called (completion)
HandlerCall(intent, fault, outcome, switched, confirmed, completion) ==
  [ op |-> "handleNaturalLanguage", intent |-> intent, fault |-> fault,
    outcome |-> outcome, switched |-> switched, confirmed |-> confirmed,
    completion |-> completion ]

\* a switch branch that never returns
ReturnsAfterSwitch_Never(outcome) == FALSE

\* the return that ends the switch branch: reached when no statement of the
\* branch has thrown
ReturnsAfterSwitch(outcome) == outcome = "ok"

\* how the switch branch ends: the error of switchModel, of sendMessage or of
\* setTyping(roomId, false), or "ok"
BranchOutcome(switchOutcome, fault) ==
  IF switchOutcome # "ok" THEN switchOutcome
  ELSE IF fault = "send" THEN "SendFailed"
  ELSE IF fault = "typingOff" THEN "TypingFailed"
  ELSE "ok"

\* handleNaturalLanguage({client, roomId, sender, message, opencodeContext}):
\* setTyping; inside a try, a new manager, the detection and, with an intent,
\* switchModel, the confirmation, setTyping(false) and return; whatever is
\* thrown inside that try is logged, and the message then goes to the AI.
\* built tells whether the manager was constructed.
handleNaturalLanguage(s, e, message, sender, roomId, fault) ==
  IF fault = "typingOn"
    THEN [built |-> FALSE, mgr |-> Constructor, store |-> s,
          call |-> HandlerCall(NotRun, fault, "TypingFailed", FALSE, FALSE, FALSE),
          sent |-> Message("error", roomId, NoId, Null, Null, Null, "TypingFailed")]
  ELSE
    LET m == initialize(s, e)
        intent == detectModelSwitchIntent(message, m)
        ai == Message("ai", roomId, sender, Null, Null, Null, "")
    IN  IF intent = NoIntent \/ intent = Thrown
          THEN [built |-> TRUE, mgr |-> m, store |-> s,
                call |-> HandlerCall(intent, fault,
                                     IF intent = Thrown THEN "TypeError" ELSE "ok",
                                     FALSE, FALSE, TRUE),
                sent |-> ai]
        ELSE
          LET r == switchModel(m, s, intent.modelId, sender, roomId, intent.scope,
                               IF fault \in FaultInputs THEN fault ELSE "none")
              outcome == BranchOutcome(r.outcome, fault)
              confirmed == r.outcome = "ok" /\ fault # "send"
          IN  [built |-> TRUE, mgr |-> r.mgr, store |-> r.store,
               call |-> HandlerCall(intent, fault, outcome, r.outcome = "ok",
                                    confirmed, ~ReturnsAfterSwitch(outcome)),
               sent |-> IF ReturnsAfterSwitch(outcome)
                          THEN Message("switched", roomId, sender,
                                       IF r.previous = Null THEN DefaultWord
                                                            ELSE r.previous,
                                       r.current, intent.scope, "")
                          ELSE ai]

InitIntent ==
  /\ env \in EnvInputs
  /\ store = EmptyStore
  /\ mgr = initialize(EmptyStore, env)
  /\ last = Call("new", Null, Null, "ok", Null)
  /\ sent = NoMessage
  /\ input \in MessageInputs
  /\ now = Epoch
  /\ pstore = NewPreferenceStore
  /\ conn = NoCalls

DetectSwitchIntent ==
  /\ last.op = "new"
  /\ last' = IntentCall("detectSwitchIntent", detectSwitchIntent(mgr, input))
  /\ UNCHANGED <<env, mgr, store, sent, input, now, conn, pstore>>

DetectModelSwitchIntent ==
  /\ last.op = "new"
  /\ last' = IntentCall("detectModelSwitchIntent",
                        detectModelSwitchIntent(input, mgr))
  /\ UNCHANGED <<env, mgr, store, sent, input, now, conn, pstore>>

\* a natural-language message of a user in a room reaches handleNaturalLanguage
HandleNaturalLanguage ==
  /\ last.op = "new"
  /\ \E sender \in {"@alice:hs"}, roomId \in Rooms, fault \in HandlerFaultInputs :
       \E r \in {handleNaturalLanguage(store, env, input, sender, roomId, fault)} :
         /\ mgr' = IF r.built THEN r.mgr ELSE mgr
         /\ store' = r.store
         /\ last' = r.call
         /\ sent' = r.sent
  /\ UNCHANGED <<env, input, now, conn, pstore>>

NextIntent ==
  \/ DetectSwitchIntent
  \/ DetectModelSwitchIntent
  \/ HandleNaturalLanguage

SpecIntent == InitIntent /\ [][NextIntent]_vars

---------------------------------------------------------------------------
(* The catalogs initialize() can load, and detection on them *)

\* client.models.list() throws
LiveFails == [present |-> TRUE, ok |-> FALSE, models |-> <<>>]

\* client.models.list() returns an empty list
LiveEmpty == [present |-> TRUE, ok |-> TRUE, models |-> <<>>]

\* client.models.list() returns two entries with names
LiveTwo == [present |-> TRUE, ok |-> TRUE, models |-> <<DeepSeek, Kimi>>]

\* client.models.list() returns an entry that has an id and no name
LiveWithoutName == [present |-> TRUE, ok |-> TRUE, models |-> <<LiveNameless>>]

\* opencode.json with the same model under two providers, no name configured
ConfigTwoGpt == [ok |-> TRUE, models |-> <<OpenaiGpt, AzureGpt>>]

\* opencode.json that parses and has no provider with models
ConfigEmpty == [ok |-> TRUE, models |-> <<>>]

CatalogLiveInputs == {NoLive, LiveFails, LiveEmpty, LiveTwo, LiveWithoutName}
CatalogConfigInputs == {NoConfig, ConfigTwoGpt, ConfigEmpty}
CatalogEnvInputs ==
  [live : CatalogLiveInputs, config : CatalogConfigInputs, dbOpens : {TRUE}]

\* use gpt, 切换到 gpt, use openai, use gpt-4o, use m-1, 切换到 m-1, use kimi,
\* 切换到 deepseek, use nothing, hello
CatalogMessageInputs ==
  { <<"u", "s", "e", " ", "g", "p", "t">>, <<"U5207", "U6362", "U5230", " ", "g", "p", "t">>, <<"u", "s", "e", " ", "o", "p", "e", "n", "a", "i">>, <<"u", "s", "e", " ", "g", "p", "t", "-", "4", "o">>, <<"u", "s", "e", " ", "m", "-", "1">>,
    <<"U5207", "U6362", "U5230", " ", "m", "-", "1">>, <<"u", "s", "e", " ", "k", "i", "m", "i">>, <<"U5207", "U6362", "U5230", " ", "d", "e", "e", "p", "s", "e", "e", "k">>, <<"u", "s", "e", " ", "n", "o", "t", "h", "i", "n", "g">>, <<"h", "e", "l", "l", "o">> }

InitCatalog ==
  /\ env \in CatalogEnvInputs
  /\ store = EmptyStore
  /\ mgr = initialize(EmptyStore, env)
  /\ last = Call("new", Null, Null, "ok", Null)
  /\ sent = NoMessage
  /\ input \in CatalogMessageInputs
  /\ now = Epoch
  /\ pstore = NewPreferenceStore
  /\ conn = NoCalls

SpecCatalog == InitCatalog /\ [][NextIntent]_vars

---------------------------------------------------------------------------
(* The room.message handler: who is answered *)

\* client.getUserId(): the bot's own id
BotUserId == <<"@", "b", "o", "t", ":", "h", "s">>

\* event.sender and roomId as the homeserver delivers them
SenderInputs == {<<"@", "a", "l", "i", "c", "e", ":", "h", "s">>, <<"@", "A", "l", "i", "c", "e", ":", "h", "s">>, <<"@", "m", "a", "l", "l", "o", "r", "y", ":", "h", "s">>, BotUserId}
RoomInputs == {<<"!", "r", "o", "o", "m", "1", ":", "h", "s">>, <<"!", "R", "o", "o", "m", "1", ":", "h", "s">>, <<"!", "o", "t", "h", "e", "r", ":", "h", "s">>}

\* an id as the key the handlers and the preference maps use: the same characters
IdString ==
  [id \in SenderInputs \cup RoomInputs |->
     CASE id = <<"@", "a", "l", "i", "c", "e", ":", "h", "s">> -> "@alice:hs"
       [] id = <<"@", "A", "l", "i", "c", "e", ":", "h", "s">> -> "@Alice:hs"
       [] id = <<"@", "m", "a", "l", "l", "o", "r", "y", ":", "h", "s">> -> "@mallory:hs"
       [] id = BotUserId -> "@bot:hs"
       [] id = <<"!", "r", "o", "o", "m", "1", ":", "h", "s">> -> "!room1:hs"
       [] id = <<"!", "R", "o", "o", "m", "1", ":", "h", "s">> -> "!Room1:hs"
       [] id = <<"!", "o", "t", "h", "e", "r", ":", "h", "s">> -> "!other:hs"]

\* process.env.MATRIX_ALLOWED_USERS and MATRIX_ALLOWED_ROOMS after split(','):
\* unset or '' gives the empty list
AllowedUsersInputs ==
  {<<>>, <<<<"@", "a", "l", "i", "c", "e", ":", "h", "s">>>>, <<<<"@", "b", "o", "b", ":", "h", "s">>, <<"@", "A", "L", "I", "C", "E", ":", "H", "S">>>>}
AllowedRoomsInputs == {<<>>, <<<<"!", "R", "O", "O", "M", "1", ":", "h", "s">>>>}

GateEnvInputs ==
  [live : {NoLive}, config : {NoConfig}, dbOpens : {TRUE},
   allowedUsers : AllowedUsersInputs, allowedRooms : AllowedRoomsInputs]

\* a list that matches ids by === only
isUserAllowed_CaseSensitive(userId, config) ==
  \/ Len(config.allowedUsers) = 0
  \/ \E i \in 1..Len(config.allowedUsers) : userId = config.allowedUsers[i]

isUserAllowed(userId, config) ==
  \/ Len(config.allowedUsers) = 0
  \/ \E i \in 1..Len(config.allowedUsers) :
       \/ userId = config.allowedUsers[i]
       \/ toLowerCase(userId) = toLowerCase(config.allowedUsers[i])

isRoomAllowed(roomId, config) ==
  \/ Len(config.allowedRooms) = 0
  \/ \E i \in 1..Len(config.allowedRooms) :
       \/ roomId = config.allowedRooms[i]
       \/ toLowerCase(roomId) = toLowerCase(config.allowedRooms[i])

\* String.prototype.startsWith
startsWith(s, prefix) ==
  Len(prefix) <= Len(s) /\ \A i \in 1..Len(prefix) : s[i] = prefix[i]

\* String.prototype.trim, for the whitespace the messages hold: spaces
RECURSIVE trim(_)
trim(s) ==
  IF s = <<>> THEN s
  ELSE IF Head(s) = " " THEN trim(Tail(s))
  ELSE IF s[Len(s)] = " " THEN trim(SubSeq(s, 1, Len(s) - 1))
  ELSE s

\* String.prototype.split(' ')
RECURSIVE split(_)
split(s) ==
  IF \E i \in 1..Len(s) : s[i] = " "
    THEN LET i == CHOOSE i \in 1..Len(s) :
                    s[i] = " " /\ \A j \in 1..(i - 1) : s[j] # " "
         IN  <<SubSeq(s, 1, i - 1)>> \o split(SubSeq(s, i + 1, Len(s)))
    ELSE <<s>>

OpencodePrefix == <<"!", "o", "p", "e", "n", "c", "o", "d", "e">>

\* what one delivery of room.message did: the handler it reached ("none" when
\* the event was dropped), whether a message was sent, a ModelManager switched
\* a model, and the AI completion was asked
EventCall(handler, replied, switched, completion) ==
  [ op |-> "room.message", handler |-> handler, replied |-> replied,
    switched |-> switched, completion |-> completion, outcome |-> "ok" ]

\* the handler returns before it does anything
Dropped(m, s, lastSent) ==
  [ built |-> FALSE, mgr |-> m, store |-> s, sent |-> lastSent,
    call |-> EventCall("none", FALSE, FALSE, FALSE) ]

\* a handler that answers in the room without a ModelManager
Answered(m, s, handler, roomId) ==
  [ built |-> FALSE, mgr |-> m, store |-> s,
    sent |-> Message(handler, roomId, NoId, Null, Null, Null, ""),
    call |-> EventCall(handler, TRUE, FALSE, FALSE) ]

\* handleModelSwitch(client, roomId, sender, args, opencodeContext)
handleModelSwitch(m, s, e, roomId, sender, args) ==
  IF Len(args) = 0
    THEN [ built |-> FALSE, mgr |-> m, store |-> s,
           sent |-> Message("usage", roomId, NoId, Null, Null, Null, ""),
           call |-> EventCall("handleModelSwitch", TRUE, FALSE, FALSE) ]
    ELSE
      LET modelId == args[1]
          scope == IF Len(args) >= 2 /\ args[2] # <<>> THEN args[2] ELSE ScopeSession
          r == switchModel(initialize(s, e), s, modelId, sender, roomId, scope, "none")
      IN  [ built |-> TRUE, mgr |-> r.mgr, store |-> r.store,
            sent |-> IF r.outcome = "ok"
                       THEN Message("switched", roomId, sender,
                                    IF r.previous = Null THEN DefaultWord
                                                         ELSE r.previous,
                                    r.current, scope, "")
                       ELSE Message("switchFailed", roomId, NoId, Null, Null,
                                    Null, r.outcome),
            call |-> EventCall("handleModelSwitch", TRUE, r.outcome = "ok", FALSE) ]

\* handleModelCurrent(client, roomId, sender, args, opencodeContext)
handleModelCurrent(s, e, roomId, sender) ==
  LET m == initialize(s, e)
      currentModel == getCurrentModel(m, sender, roomId)
  IN  [ built |-> TRUE, mgr |-> m, store |-> s,
        sent |-> IF getModelConfig(m, currentModel)
                   THEN Message("current", roomId, sender, Null, currentModel,
                                Null, "")
                   ELSE Message("currentFailed", roomId, NoId, Null, Null, Null,
                                "NotFound"),
        call |-> EventCall("handleModelCurrent", TRUE, FALSE, FALSE) ]

\* the commands whose handler answers without a ModelManager
PlainCommands ==
  { <<"h", "e", "l", "p">>, <<"s", "t", "a", "t", "u", "s">>, <<"r", "u", "n">>, <<"e", "x", "e", "c">>, <<"s", "h", "e", "l", "l">>, <<"p", "r", "o", "j", "e", "c", "t", "s">>, <<"m", "o", "d", "e", "l", "s">>,
    <<"v", "e", "r", "s", "i", "o", "n">> }

\* handleMatrixCommand: the text after '!opencode', trimmed and split at spaces
handleMatrixCommand(m, s, e, roomId, sender, message) ==
  LET commandText == trim(SubSeq(message, Len(OpencodePrefix) + 1, Len(message)))
  IN  IF commandText = <<>> THEN Answered(m, s, "commandUsage", roomId)
      ELSE
        LET words == split(commandText)
            command == toLowerCase(Head(words))
            args == Tail(words)
        IN  IF command \in PlainCommands
              THEN Answered(m, s, "command", roomId)
            ELSE IF command \in {<<"s", "w", "i", "t", "c", "h">>, <<"m", "o", "d", "e", "l">>}
              THEN handleModelSwitch(m, s, e, roomId, sender, args)
            ELSE IF command = <<"c", "u", "r", "r", "e", "n", "t">>
              THEN handleModelCurrent(s, e, roomId, sender)
            ELSE Answered(m, s, "unknownCommand", roomId)

\* the natural-language handler, as one delivery sees it
NaturalLanguage(s, e, roomId, sender, message) ==
  LET r == handleNaturalLanguage(s, e, message, sender, roomId, "none")
  IN  [ built |-> r.built, mgr |-> r.mgr, store |-> r.store, sent |-> r.sent,
        call |-> EventCall("handleNaturalLanguage", TRUE, r.call.switched,
                           r.call.completion) ]

\* a handler that looks at the body before the message type
onRoomMessage_BodyFirst(m, s, e, lastSent, roomId, event) ==
  IF event.type # "m.room.message" THEN Dropped(m, s, lastSent)
  ELSE IF event.sender = BotUserId THEN Dropped(m, s, lastSent)
  ELSE IF ~isUserAllowed(event.sender, e) \/ ~isRoomAllowed(roomId, e)
    THEN Dropped(m, s, lastSent)
  ELSE IF startsWith(event.body, OpencodePrefix)
    THEN handleMatrixCommand(m, s, e, IdString[roomId], IdString[event.sender],
                             event.body)
  ELSE IF startsWith(event.body, <<"!", "h", "e", "l", "p">>)
    THEN Answered(m, s, "sendHelpMessage", IdString[roomId])
  ELSE IF startsWith(event.body, <<"!", "s", "t", "a", "t", "u", "s">>)
    THEN Answered(m, s, "sendStatusMessage", IdString[roomId])
  ELSE IF event.msgtype = "m.file"
    THEN Answered(m, s, "handleFileEvent", IdString[roomId])
  ELSE IF event.msgtype = "m.image"
    THEN Answered(m, s, "handleImageEvent", IdString[roomId])
  ELSE NaturalLanguage(s, e, IdString[roomId], IdString[event.sender], event.body)

\* client.on('room.message', async (roomId, event) => ...)
onRoomMessage(m, s, e, lastSent, roomId, event) ==
  IF event.type # "m.room.message" THEN Dropped(m, s, lastSent)
  ELSE IF event.sender = BotUserId THEN Dropped(m, s, lastSent)
  ELSE IF ~isUserAllowed(event.sender, e) \/ ~isRoomAllowed(roomId, e)
    THEN Dropped(m, s, lastSent)
  ELSE IF event.msgtype = "m.file"
    THEN Answered(m, s, "handleFileEvent", IdString[roomId])
  ELSE IF event.msgtype = "m.image"
    THEN Answered(m, s, "handleImageEvent", IdString[roomId])
  ELSE IF startsWith(event.body, OpencodePrefix)
    THEN handleMatrixCommand(m, s, e, IdString[roomId], IdString[event.sender],
                             event.body)
  ELSE IF startsWith(event.body, <<"!", "h", "e", "l", "p">>)
    THEN Answered(m, s, "sendHelpMessage", IdString[roomId])
  ELSE IF startsWith(event.body, <<"!", "s", "t", "a", "t", "u", "s">>)
    THEN Answered(m, s, "sendStatusMessage", IdString[roomId])
  ELSE NaturalLanguage(s, e, IdString[roomId], IdString[event.sender], event.body)

\* !opencode, !opencode current, !opencode switch cc-oaicomp/DeepSeek-V3.2 user,
\* !opencode SWITCH cc-oaicomp/DeepSeek-V3.2, !opencode exec ls, !opencode dance,
\* !help, !status, 切换到 deepseek 我的, and the weather question
BodyInputs ==
  { OpencodePrefix, <<"!", "o", "p", "e", "n", "c", "o", "d", "e", " ", "c", "u", "r", "r", "e", "n", "t">>,
    <<"!", "o", "p", "e", "n", "c", "o", "d", "e", " ", "s", "w", "i", "t", "c", "h", " ", "c", "c", "-", "o", "a", "i", "c", "o", "m", "p", "/", "D", "e", "e", "p", "S", "e", "e", "k", "-", "V", "3", ".", "2", " ", "u", "s", "e", "r">>,
    <<"!", "o", "p", "e", "n", "c", "o", "d", "e", " ", " ", "S", "W", "I", "T", "C", "H", " ", "c", "c", "-", "o", "a", "i", "c", "o", "m", "p", "/", "D", "e", "e", "p", "S", "e", "e", "k", "-", "V", "3", ".", "2">>,
    <<"!", "o", "p", "e", "n", "c", "o", "d", "e", " ", "e", "x", "e", "c", " ", "l", "s">>, <<"!", "o", "p", "e", "n", "c", "o", "d", "e", " ", "d", "a", "n", "c", "e">>, <<"!", "h", "e", "l", "p">>, <<"!", "s", "t", "a", "t", "u", "s">>,
    <<"U5207", "U6362", "U5230", " ", "d", "e", "e", "p", "s", "e", "e", "k", " ", "U6211", "U7684">>, Weather }

\* the events delivered: text messages with every body, a file, an image, and
\* an event of another type
EventContentInputs ==
  {[type |-> "m.room.message", msgtype |-> "m.text", body |-> b] : b \in BodyInputs}
    \cup {[type |-> "m.room.message", msgtype |-> "m.file", body |-> <<>>],
          [type |-> "m.room.message", msgtype |-> "m.image", body |-> <<>>],
          [type |-> "m.room.message", msgtype |-> "m.file",
           body |-> <<"!", "o", "p", "e", "n", "c", "o", "d", "e", " ", "c", "u", "r", "r", "e", "n", "t">>],
          [type |-> "m.room.message", msgtype |-> "m.image", body |-> <<"!", "s", "t", "a", "t", "u", "s">>],
          [type |-> "m.room.message", msgtype |-> "m.text", body |-> <<>>],
          [type |-> "m.reaction", msgtype |-> "m.text", body |-> <<>>]}

\* the database file at the start: new, or with a preference of an earlier run
GateStoreInputs ==
  { EmptyStore,
    [EmptyStore EXCEPT !.user_model_preferences =
       InsertOrReplaceUser(@, "@alice:hs", DeepSeek)] }

InitGate ==
  /\ env \in GateEnvInputs
  /\ store \in GateStoreInputs
  /\ mgr = initialize(store, env)
  /\ last = Call("new", Null, Null, "ok", Null)
  /\ sent = NoMessage
  /\ input = Null
  /\ now = Epoch
  /\ pstore = NewPreferenceStore
  /\ conn = NoCalls

\* the homeserver delivers an event of a room
OnRoomMessage ==
  /\ last.op = "new"
  /\ \E roomId \in RoomInputs, sender \in SenderInputs, c \in EventContentInputs :
       \E event \in {[type |-> c.type, sender |-> sender, roomId |-> roomId,
                      msgtype |-> c.msgtype, body |-> c.body]} :
         \E r \in {onRoomMessage(mgr, store, env, sent, roomId, event)} :
           /\ mgr' = r.mgr
           /\ store' = r.store
           /\ last' = r.call
           /\ sent' = r.sent
           /\ input' = event
  /\ UNCHANGED <<env, now, conn, pstore>>

NextGate == OnRoomMessage

SpecGate == InitGate /\ [][NextGate]_vars

---------------------------------------------------------------------------
(* switchModel for two users in two rooms, one tier at a time *)

FrameRooms == {"!room1:hs", "!room2:hs"}
FrameScopeInputs == {ScopeSession, ScopeUser, ScopeRoom}
FrameSwitchInputs == AcceptedIdInputs \X Users \X FrameRooms \X FrameScopeInputs

\* a switchModel call with its caller
FrameCall(modelId, userId, roomId, scope, outcome) ==
  [ op |-> "switchModel", modelId |-> modelId, userId |-> userId,
    roomId |-> roomId, scope |-> scope, outcome |-> outcome ]

SwitchModelFrame ==
  \E in \in FrameSwitchInputs :
    \E r \in {switchModel(mgr, store, in[1], in[2], in[3], in[4], "none")} :
      /\ mgr' = r.mgr
      /\ store' = r.store
      /\ last' = FrameCall(in[1], in[2], in[3], in[4], r.outcome)
      /\ UNCHANGED <<env, sent, input, now, conn, pstore>>

NextFrame == SwitchModelFrame

SpecFrame == Init /\ [][NextFrame]_vars

---------------------------------------------------------------------------
(* new ModelManager(ctx) and the caller's await initialize(): two runs of
   initialize() on one manager *)

\* run 1 is started by the constructor, run 2 is the one the caller awaits
ConstructorRun == 1
AwaitedRun == 2

\* where a run of initialize() is suspended: not started ("idle"), at the await
\* of client.models.list(), readFile, import('fs/promises') or fs.mkdir, after
\* initDatabase() returned, after loadPreferences() returned, or returned
InitRun(pc) == [pc |-> pc]

InitRaceLiveInputs == {NoLive, LiveEmpty, LiveTwo}
InitRaceConfigInputs == {NoConfig, ConfigTwoGpt}
InitRaceEnvInputs ==
  [live : InitRaceLiveInputs, config : InitRaceConfigInputs, dbOpens : BOOLEAN]

\* the constructor's fields, and which run's new Database() this.db is (0: unset)
ConstructedManager ==
  [ currentModel |-> Kimi, userPreferences |-> <<>>, roomPreferences |-> <<>>,
    availableModels |-> <<>>, db |-> FALSE, handle |-> 0 ]

\* initialize() up to its first await: loadAvailableModels asks the client, when
\* there is one, and otherwise reads opencode.json
FirstAwait(e) == IF e.live.present THEN "list" ELSE "readFile"

\* the state when the constructor has returned: its run is at its first await
InitRace ==
  /\ env \in InitRaceEnvInputs
  /\ store \in GateStoreInputs
  /\ mgr = ConstructedManager
  /\ conn = [c \in Conns |->
               IF c = ConstructorRun THEN InitRun(FirstAwait(env)) ELSE InitRun("idle")]
  /\ last = Call("new", Null, Null, "ok", Null)
  /\ sent = NoMessage
  /\ input = Null
  /\ now = Epoch
  /\ pstore = NewPreferenceStore

\* the caller calls initialize() and awaits it
AwaitInitialize ==
  /\ conn[AwaitedRun].pc = "idle"
  /\ conn' = [conn EXCEPT ![AwaitedRun] = InitRun(FirstAwait(env))]
  /\ UNCHANGED <<env, mgr, store, last, sent, input, now, pstore>>

\* client.models.list() settles: a non-empty list is the catalog, an empty one
\* or an error goes on to the configuration file
ResumeList ==
  \E c \in Conns :
    /\ conn[c].pc = "list"
    /\ IF env.live.ok /\ Len(env.live.models) > 0
         THEN /\ mgr' = [mgr EXCEPT !.availableModels = env.live.models]
              /\ conn' = [conn EXCEPT ![c] = InitRun("import")]
         ELSE /\ mgr' = mgr
              /\ conn' = [conn EXCEPT ![c] = InitRun("readFile")]
    /\ UNCHANGED <<env, store, last, sent, input, now, pstore>>

\* readFile settles: the models of the file, or the default list
ResumeReadFile ==
  \E c \in Conns :
    /\ conn[c].pc = "readFile"
    /\ mgr' = [mgr EXCEPT !.availableModels =
                 IF env.config.ok THEN env.config.models ELSE getDefaultModels]
    /\ conn' = [conn EXCEPT ![c] = InitRun("import")]
    /\ UNCHANGED <<env, store, last, sent, input, now, pstore>>

\* import('fs/promises') settles
ResumeImport ==
  \E c \in Conns :
    /\ conn[c].pc = "import"
    /\ conn' = [conn EXCEPT ![c] = InitRun("mkdir")]
    /\ UNCHANGED <<env, mgr, store, last, sent, input, now, pstore>>

\* this.db = new Database(dbPath) of run c
OpenDatabase(m, c) == [initDatabase(m, TRUE) EXCEPT !.handle = c]

\* fs.mkdir settles: this.db = new Database(dbPath) and the CREATE TABLEs
ResumeMkdir ==
  \E c \in Conns :
    /\ conn[c].pc = "mkdir"
    /\ mgr' = IF env.dbOpens THEN OpenDatabase(mgr, c) ELSE mgr
    /\ conn' = [conn EXCEPT ![c] = InitRun("initDatabaseReturned")]
    /\ UNCHANGED <<env, store, last, sent, input, now, pstore>>

\* await this.loadPreferences(): the rows are read at once
LoadPreferences ==
  \E c \in Conns :
    /\ conn[c].pc = "initDatabaseReturned"
    /\ mgr' = loadPreferences(mgr, store)
    /\ conn' = [conn EXCEPT ![c] = InitRun("loadPreferencesReturned")]
    /\ UNCHANGED <<env, store, last, sent, input, now, pstore>>

\* initialize() returns
InitializeReturns ==
  \E c \in Conns :
    /\ conn[c].pc = "loadPreferencesReturned"
    /\ conn' = [conn EXCEPT ![c] = InitRun("done")]
    /\ last' = IF c = AwaitedRun THEN Call("initialize", Null, Null, "ok", Null)
                                 ELSE last
    /\ UNCHANGED <<env, mgr, store, sent, input, now, pstore>>

\* the caller, after its await, calls switchModel
SwitchAfterInitialize ==
  /\ conn[AwaitedRun].pc = "done"
  /\ last.op = "initialize"
  /\ \E modelId \in AcceptedIdInputs, scope \in {ScopeSession, ScopeUser} :
       \E r \in {switchModel(mgr, store, modelId, "@bob:hs", "!room1:hs", scope,
                             "none")} :
         /\ mgr' = r.mgr
         /\ store' = r.store
         /\ last' = Call("switchModel", modelId, scope, r.outcome, r.previous)
  /\ UNCHANGED <<env, sent, input, now, conn, pstore>>

NextInitRace ==
  \/ AwaitInitialize
  \/ ResumeList
  \/ ResumeReadFile
  \/ ResumeImport
  \/ ResumeMkdir
  \/ LoadPreferences
  \/ InitializeReturns
  \/ SwitchAfterInitialize

SpecInitRace == InitRace /\ [][NextInitRace]_vars

---------------------------------------------------------------------------
(* PreferenceStore operations started together on a new store *)

\* where an operation is: not started, inside initialize() at the await of
\* import('fs/promises'), of fs.mkdir or of createTables(), back in
\* ensureInitialized, or finished; db is the connection its statements ran on
StoreOp(pc, db) == [pc |-> pc, db |-> db]

\* the operations started together
StoreOps == {1, 2, 3}

InitOpen ==
  /\ env \in EnvInputs
  /\ env.dbOpens
  /\ store = EmptyStore
  /\ mgr = initialize(EmptyStore, env)
  /\ last = Call("new", Null, Null, "ok", Null)
  /\ sent = NoMessage
  /\ input = Null
  /\ now = Epoch
  /\ pstore = NewPreferenceStore
  /\ conn = [c \in StoreOps |-> StoreOp("idle", 0)]

\* an operation starts: await this.ensureInitialized(), which calls
\* initialize() unless initialized is set; initialize() runs to its first await
EnsureInitialized ==
  \E c \in StoreOps :
    /\ conn[c].pc = "idle"
    /\ conn' = [conn EXCEPT ![c] =
                  StoreOp(IF pstore.initialized THEN "ensured" ELSE "import", 0)]
    /\ UNCHANGED <<env, mgr, store, last, sent, input, now, pstore>>

\* import('fs/promises') settles
StoreResumeImport ==
  \E c \in StoreOps :
    /\ conn[c].pc = "import"
    /\ conn' = [conn EXCEPT ![c] = StoreOp("mkdir", 0)]
    /\ UNCHANGED <<env, mgr, store, last, sent, input, now, pstore>>

\* fs.mkdir settles: this.db = new Database(this.dbPath), the pragmas, and
\* createTables() up to its return
StoreResumeMkdir ==
  \E c \in StoreOps :
    /\ conn[c].pc = "mkdir"
    /\ pstore' = [pstore EXCEPT !.db = c, !.opened = @ \cup {c}]
    /\ conn' = [conn EXCEPT ![c] = StoreOp("createTables", 0)]
    /\ UNCHANGED <<env, mgr, store, last, sent, input, now>>

\* await this.createTables() settles: this.initialized = true
SetInitialized ==
  \E c \in StoreOps :
    /\ conn[c].pc = "createTables"
    /\ pstore' = [pstore EXCEPT !.initialized = TRUE]
    /\ conn' = [conn EXCEPT ![c] = StoreOp("ensured", 0)]
    /\ UNCHANGED <<env, mgr, store, last, sent, input, now>>

\* ensureInitialized() has returned: the operation runs its statements on this.db
RunStatements ==
  \E c \in StoreOps :
    /\ conn[c].pc = "ensured"
    /\ conn' = [conn EXCEPT ![c] = StoreOp("done", pstore.db)]
    /\ UNCHANGED <<env, mgr, store, last, sent, input, now, pstore>>

\* close(): the connection is closed and initialized cleared when db is set.
\* createTables() and ensureInitialized() resume without waiting for anything, so
\* no other caller gets a turn before they do
Close ==
  /\ pstore.db # 0
  /\ \A c \in StoreOps : conn[c].pc \notin {"createTables", "ensured"}
  /\ pstore' = [pstore EXCEPT !.closed = @ \cup {pstore.db}, !.initialized = FALSE]
  /\ UNCHANGED <<env, mgr, store, last, sent, input, now, conn>>

NextOpen ==
  \/ EnsureInitialized
  \/ StoreResumeImport
  \/ StoreResumeMkdir
  \/ SetInitialized
  \/ RunStatements
  \/ Close

SpecOpen == InitOpen /\ [][NextOpen]_vars

---------------------------------------------------------------------------
(* handleNaturalLanguage call by call: the typing indicator and the replies *)

\* one call the handler makes on the Matrix client, the manager or an AI
\* service: what is called, with what (the indicator's value, the kind of
\* message), and whether the call returned
Ev(call, arg, ok) == [call |-> call, arg |-> arg, ok |-> ok]

\* the calls that can fail, each on its own
ReplyFaultPoints ==
  { "typingOn", "switchModel", "sendSwitched", "typingOffSwitch", "prompt",
    "sendAi", "callAIApi", "sendFallback", "sendTemplate", "typingOff",
    "sendError" }

\* how a part of the handler ends: the calls it made and whether it threw
Part(trace, thrown) == [trace |-> trace, thrown |-> thrown]

\* the template reply
TemplateReply(f) ==
  IF "sendTemplate" \in f
    THEN Part(<<Ev("sendMessage", "template", FALSE)>>, TRUE)
    ELSE Part(<<Ev("sendMessage", "template", TRUE)>>, FALSE)

\* the catch of the primary attempt: callAIApi and its reply, then the template
FallbackReply(f) ==
  IF "callAIApi" \in f
    THEN Part(<<Ev("callAIApi", "", FALSE)>> \o TemplateReply(f).trace,
              TemplateReply(f).thrown)
  ELSE IF "sendFallback" \in f
    THEN Part(<<Ev("callAIApi", "", TRUE), Ev("sendMessage", "fallback", FALSE)>>
                \o TemplateReply(f).trace,
              TemplateReply(f).thrown)
  ELSE Part(<<Ev("callAIApi", "", TRUE), Ev("sendMessage", "fallback", TRUE)>>,
            FALSE)

\* opencodeClient.session.prompt and its reply, then the fallback
AiReply(f) ==
  IF "prompt" \in f
    THEN Part(<<Ev("prompt", "", FALSE)>> \o FallbackReply(f).trace,
              FallbackReply(f).thrown)
  ELSE IF "sendAi" \in f
    THEN Part(<<Ev("prompt", "", TRUE), Ev("sendMessage", "ai", FALSE)>>
                \o FallbackReply(f).trace,
              FallbackReply(f).thrown)
  ELSE Part(<<Ev("prompt", "", TRUE), Ev("sendMessage", "ai", TRUE)>>, FALSE)

\* the outer catch: the error message; its failure leaves the handler
OuterCatch(trace, f) ==
  IF "sendError" \in f
    THEN [trace |-> trace \o <<Ev("sendMessage", "error", FALSE)>>,
          outcome |-> "thrown"]
    ELSE [trace |-> trace \o <<Ev("sendMessage", "error", TRUE)>>,
          outcome |-> "returned"]

\* the AI replies and the setTyping(roomId, false) after them
ReplyAndFinish(trace, f) ==
  IF AiReply(f).thrown THEN OuterCatch(trace \o AiReply(f).trace, f)
  ELSE IF "typingOff" \in f
    THEN OuterCatch(trace \o AiReply(f).trace \o <<Ev("setTyping", FALSE, FALSE)>>, f)
  ELSE [trace |-> trace \o AiReply(f).trace \o <<Ev("setTyping", FALSE, TRUE)>>,
        outcome |-> "returned"]

\* handleNaturalLanguage with the calls in f failing: the manager and the store
\* after it, whether detection gave a switch, and the calls in order
handleNaturalLanguageCalls(s, e, message, sender, roomId, f) ==
  IF "typingOn" \in f
    THEN [mgr |-> Constructor, store |-> s, intent |-> FALSE] @@
         OuterCatch(<<Ev("setTyping", TRUE, FALSE)>>, f)
  ELSE
    LET m == initialize(s, e)
        intent == detectModelSwitchIntent(message, m)
        on == <<Ev("setTyping", TRUE, TRUE)>>
    IN  IF intent = NoIntent \/ intent = Thrown
          THEN [mgr |-> m, store |-> s, intent |-> FALSE] @@ ReplyAndFinish(on, f)
        ELSE
          LET r == switchModel(m, s, intent.modelId, sender, roomId, intent.scope,
                               IF "switchModel" \in f THEN "user" ELSE "none")
              base == [mgr |-> r.mgr, store |-> r.store, intent |-> TRUE]
          IN  IF r.outcome # "ok"
                THEN base @@ ReplyAndFinish(on \o <<Ev("switchModel", "", FALSE)>>, f)
              ELSE IF "sendSwitched" \in f
                THEN base @@ ReplyAndFinish(
                       on \o <<Ev("switchModel", "", TRUE),
                               Ev("sendMessage", "switched", FALSE)>>, f)
              ELSE IF "typingOffSwitch" \in f
                THEN base @@ ReplyAndFinish(
                       on \o <<Ev("switchModel", "", TRUE),
                               Ev("sendMessage", "switched", TRUE),
                               Ev("setTyping", FALSE, FALSE)>>, f)
              ELSE base @@
                   [trace |-> on \o <<Ev("switchModel", "", TRUE),
                                      Ev("sendMessage", "switched", TRUE),
                                      Ev("setTyping", FALSE, TRUE)>>,
                    outcome |-> "returned"]

\* the weather question, and 切换到 deepseek 我的
ReplyMessageInputs == {Weather, <<"U5207", "U6362", "U5230", " ", "d", "e", "e", "p", "s", "e", "e", "k", " ", "U6211", "U7684">>}

\* a natural-language message reaches the handler; any of its calls may fail
HandleNaturalLanguageCalls ==
  /\ last.op = "new"
  /\ \E f \in SUBSET ReplyFaultPoints, message \in ReplyMessageInputs :
       \E r \in {handleNaturalLanguageCalls(store, env, message, "@alice:hs",
                                            "!room1:hs", f)} :
         /\ mgr' = r.mgr
         /\ store' = r.store
         /\ last' = [op |-> "handleNaturalLanguage", intent |-> r.intent,
                     trace |-> r.trace, outcome |-> r.outcome]
         /\ input' = message
  /\ UNCHANGED <<env, sent, now, conn, pstore>>

NextReply == HandleNaturalLanguageCalls

SpecReply == Init /\ [][NextReply]_vars

---------------------------------------------------------------------------
(* File messages: handleFileMessage and handleFileEvent *)

\* maxFileSize: 10 * 1024 * 1024, passed by handleFileEvent
maxFileSize == 10 * 1024 * 1024

\* event.content of an m.file message: url is absent ("none"), an mxc:// URL
\* ("mxc") or another string ("other"); file is whether content.file (with its
\* url) is present; size is info.size, 0 when absent
FileContentInputs ==
  [url : {"none", "mxc", "other"}, file : BOOLEAN,
   size : {0, maxFileSize, maxFileSize + 1}]

\* how the three download endpoints answer, in the order they are tried: the
\* file ("ok"), an error status ("status"), or fetch throws ("throws")
EndpointInputs ==
  { <<"ok", "ok", "ok">>, <<"status", "ok", "ok">>, <<"throws", "status", "ok">>,
    <<"status", "throws", "status">>, <<"throws", "throws", "throws">> }

\* what the file handler finds outside the event: whether client.crypto can
\* decrypt and does, the endpoints, whether the file can be written, the type
\* getFileType gives the name, and whether parseExcel returns
FileWorldInputs ==
  [crypto : BOOLEAN, decrypts : BOOLEAN, endpoints : EndpointInputs,
   writes : BOOLEAN, fileType : {"excel", "text", "other"}, parses : BOOLEAN]

\* the URLs tried in turn, up to the first that answers with the file
RECURSIVE TryEndpoints(_, _)
TryEndpoints(endpoints, i) ==
  IF i > Len(endpoints) THEN Part(<<>>, TRUE)
  ELSE IF endpoints[i] = "ok" THEN Part(<<Ev("fetch", i, TRUE)>>, FALSE)
  ELSE LET rest == TryEndpoints(endpoints, i + 1)
       IN  Part(<<Ev("fetch", i, FALSE)>> \o rest.trace, rest.thrown)

\* downloadMatrixMedia: throws on a URL that is no mxc:// URL before any fetch,
\* and when no endpoint answered with the file
downloadMatrixMedia(mxcUrl, endpoints) ==
  IF mxcUrl # "mxc" THEN Part(<<>>, TRUE) ELSE TryEndpoints(endpoints, 1)

\* a result of handleFileMessage: error and type as returned, the calls made
FileResult(error, type, trace) ==
  [error |-> error, type |-> type, trace |-> trace, thrown |-> FALSE]

\* handleFileMessage(client, event, {maxFileSize})
handleFileMessage(content, w) ==
  LET isEncrypted == content.url = "none" /\ content.file
      mxcUrl == IF content.url # "none" THEN content.url
                ELSE IF content.file THEN "mxc" ELSE "none"
  IN  IF mxcUrl = "none" THEN FileResult(TRUE, "none", <<>>)
      ELSE IF content.size > maxFileSize THEN FileResult(TRUE, "none", <<>>)
      ELSE
        LET got == IF isEncrypted
                     THEN IF ~w.crypto THEN Part(<<>>, TRUE)
                          ELSE Part(<<Ev("decryptMedia", "", w.decrypts)>>,
                                    ~w.decrypts)
                     ELSE downloadMatrixMedia(mxcUrl, w.endpoints)
        IN  IF got.thrown THEN FileResult(TRUE, "none", got.trace)
            ELSE IF ~w.writes
              THEN FileResult(TRUE, "none",
                              got.trace \o <<Ev("writeFileSync", "", FALSE)>>)
            ELSE IF w.fileType = "excel" /\ ~w.parses
              THEN FileResult(TRUE, "none",
                              got.trace \o <<Ev("writeFileSync", "", TRUE),
                                             Ev("parseExcel", "", FALSE)>>)
            ELSE FileResult(FALSE, w.fileType,
                            got.trace \o <<Ev("writeFileSync", "", TRUE)>>)

\* the calls of handleFileEvent on the Matrix client that can fail, each on
\* its own: setTyping(true), the message for the result, setTyping(false)
\* after it, and in the catch setTyping(false) and the error message
FileFaultPoints ==
  {"typingOn", "sendResult", "typingOff", "typingOffCatch", "sendError"}

\* the catch of handleFileEvent
FileCatch(trace, f) ==
  IF "typingOffCatch" \in f
    THEN [trace |-> trace \o <<Ev("setTyping", FALSE, FALSE)>>, outcome |-> "thrown"]
  ELSE IF "sendError" \in f
    THEN [trace |-> trace \o <<Ev("setTyping", FALSE, TRUE),
                               Ev("sendMessage", "error", FALSE)>>,
          outcome |-> "thrown"]
  ELSE [trace |-> trace \o <<Ev("setTyping", FALSE, TRUE),
                             Ev("sendMessage", "error", TRUE)>>,
        outcome |-> "returned"]

\* handleFileEvent: the result of handleFileMessage, when it was called, and
\* the calls on the client in order
handleFileEvent(content, w, f) ==
  IF "typingOn" \in f
    THEN [called |-> FALSE, result |-> FileResult(FALSE, "none", <<>>)] @@
         FileCatch(<<Ev("setTyping", TRUE, FALSE)>>, f)
  ELSE
    LET result == handleFileMessage(content, w)
        kind == IF result.error THEN "failure" ELSE result.type
        on == <<Ev("setTyping", TRUE, TRUE)>>
        base == [called |-> TRUE, result |-> result]
    IN  IF result.thrown THEN base @@ FileCatch(on, f)
        ELSE IF "sendResult" \in f
          THEN base @@ FileCatch(on \o <<Ev("sendMessage", kind, FALSE)>>, f)
        ELSE IF "typingOff" \in f
          THEN base @@ FileCatch(on \o <<Ev("sendMessage", kind, TRUE),
                                         Ev("setTyping", FALSE, FALSE)>>, f)
        ELSE base @@ [trace |-> on \o <<Ev("sendMessage", kind, TRUE),
                                        Ev("setTyping", FALSE, TRUE)>>,
                      outcome |-> "returned"]

\* an m.file event reaches handleFileEvent
HandleFileEvent ==
  /\ last.op = "new"
  /\ \E content \in FileContentInputs, w \in FileWorldInputs,
        f \in SUBSET FileFaultPoints :
       \E r \in {handleFileEvent(content, w, f)} :
         /\ last' = [op |-> "handleFileEvent", called |-> r.called,
                     result |-> r.result, trace |-> r.trace,
                     outcome |-> r.outcome]
         /\ input' = [content |-> content, world |-> w]
  /\ UNCHANGED <<env, mgr, store, sent, now, conn, pstore>>

NextFile == HandleFileEvent

SpecFile == Init /\ [][NextFile]_vars

---------------------------------------------------------------------------
(* Claims *)

\* what a call of switchModel from the current state gives
Result(in) == switchModel(mgr, store, in[1], in[2], in[3], in[4], "none")

HasUserPreference(m, userId) == userId # NoId /\ userId \in DOMAIN m.userPreferences
HasRoomPreference(m, roomId) == roomId # NoId /\ roomId \in DOMAIN m.roomPreferences

\* the scope inputs by the tiers they name
SessionScopes == {ScopeSession, ScopeAll, ScopeUserSession, ScopeUserRoomSession}
UserScopes == {ScopeUser, ScopeUserSession, ScopeUserRoomSession}
RoomScopes == {ScopeRoom, ScopeUserRoomSession}

Alice == "@alice:hs"
Room1 == "!room1:hs"

\* C1: in every reachable state getCurrentModel({userId, roomId}) is the user
\* preference of userId when userId is given and has one, otherwise the room
\* preference of roomId when roomId is given and has one, otherwise the session
\* default, and never anything else.
C1_Precedence ==
  \A userId \in UserIdInputs, roomId \in RoomIdInputs :
    LET got == getCurrentModel(mgr, userId, roomId)
    IN  /\ HasUserPreference(mgr, userId) => got = mgr.userPreferences[userId]
        /\ ~HasUserPreference(mgr, userId) /\ HasRoomPreference(mgr, roomId)
             => got = mgr.roomPreferences[roomId]
        /\ ~HasUserPreference(mgr, userId) /\ ~HasRoomPreference(mgr, roomId)
             => got = mgr.currentModel

\* C1 witness: the room and the session default are set to one model, the user
\* to another, and the caller gets the user's
C1_Witness ==
  /\ last.op = "switchModel"
  /\ HasUserPreference(mgr, Alice) /\ HasRoomPreference(mgr, Room1)
  /\ mgr.roomPreferences[Room1] = DeepSeek
  /\ mgr.currentModel = DeepSeek
  /\ mgr.userPreferences[Alice] = Kimi
  /\ getCurrentModel(mgr, Alice, Room1) = Kimi

C3_SessionDefaultLives ==
  [][ ( /\ sent.kind = "switched" /\ sent.scope = ScopeSession
        /\ sent'.kind = "current"
        /\ ~\E r \in store'.user_model_preferences : r.user_id = sent'.user
        /\ ~\E r \in store'.room_model_preferences : r.room_id = sent'.roomId )
        => sent'.current = sent.current ]_vars

\* C4 as claimed: a switchModel with scope 'global' that returns leaves the
\* session default equal to the id switched to.
C4_GlobalSetsSessionDefault ==
  \A in \in SwitchInputs :
    in[4] = ScopeGlobal /\ Result(in).outcome = "ok"
      => Result(in).mgr.currentModel = in[1]

\* the positions of '/' in an id
Slashes(id) == {i \in 1..Len(id) : id[i] = "/"}

\* the characters the specification allows in a token
TokenChars == Lower \cup Upper \cup Digit \cup {".", "_", "-"}

\* an id without exactly one '/' or with a character outside the token characters
Malformed(id) ==
  \/ Cardinality(Slashes(id)) # 1
  \/ \E i \in 1..Len(id) : id[i] \notin TokenChars \cup {"/"}

\* <first>/<second>: both tokens non-empty, the first over the characters of
\* first, the second over those of second
TokenSlashToken(id, first, second) ==
  /\ Cardinality(Slashes(id)) = 1
  /\ \A k \in Slashes(id) :
       /\ 1 < k /\ k < Len(id)
       /\ \A i \in 1..(k - 1) : id[i] \in first
       /\ \A i \in (k + 1)..Len(id) : id[i] \in second

\* C5: a switchModel with an id that has not exactly one '/' or has a character
\* outside letters, digits, '.', '_', '-' gives the invalid-format error, also
\* when the catalog lists that id, and leaves the manager and the store as they
\* were after construction.
C5_MalformedRejectedFirst ==
  last.op = "switchModel" /\ Malformed(last.modelId)
    => /\ last.outcome = "InvalidFormat"
       /\ mgr = initialize(EmptyStore, env)
       /\ store = EmptyStore

\* C5 witness: 'a/b/c' is in the catalog and switchModel has rejected it for
\* its format
C5_Witness ==
  /\ last.op = "switchModel" /\ last.modelId = ABC
  /\ isModelAvailable(mgr, ABC)
  /\ last.outcome = "InvalidFormat"

\* C6 as claimed: validateModelIdFormat gives true exactly for <token>/<token>
\* with both tokens non-empty over letters, digits, '.', '_', '-'.
C6_SameCharactersBothSides ==
  last.op = "validateModelIdFormat"
    => (last.outcome = "true"
          <=> TokenSlashToken(last.modelId, TokenChars, TokenChars))

\* C6 as amended: validateModelIdFormat gives true exactly for
\* <provider>/<model> with a non-empty provider over letters, digits, '_', '-'
\* (no '.') and a non-empty model over letters, digits, '.', '_', '-'.
C6_NoDotInProvider ==
  last.op = "validateModelIdFormat"
    => (last.outcome = "true"
          <=> TokenSlashToken(last.modelId, TokenChars \ {"."}, TokenChars))

\* C6 witness: 'my.provider/model-1' has been judged, and judged invalid
C6_Witness ==
  /\ last.op = "validateModelIdFormat"
  /\ last.modelId = DottedProvider
  /\ last.outcome = "false"

\* C7: from every reachable state a switchModel with 'ghost/model-9' gives the
\* model-unavailable error, and every switchModel that is rejected gives back
\* the manager (session default, user and room preferences) and the store
\* (preference, usage and history tables) it was called with.
C7_RejectedChangesNothing ==
  \A in \in SwitchInputs :
    \E r \in {Result(in)} :
      /\ in[1] = Ghost => r.outcome = "ModelUnavailable"
      /\ in[1] \in RejectedIdInputs
           => r.outcome \in {"InvalidFormat", "ModelUnavailable"}
      /\ r.outcome # "ok" => r.mgr = mgr /\ r.store = store

\* C7 witness: 'ghost/model-9' has been rejected as unavailable in a state
\* that earlier switches had changed
C7_Witness ==
  /\ last.op = "switchModel" /\ last.modelId = Ghost
  /\ last.outcome = "ModelUnavailable"
  /\ mgr.currentModel = DeepSeek
  /\ HasUserPreference(mgr, Alice)
  /\ HasRoomPreference(mgr, Room1)

\* C8 as claimed: every switchModel that returns gives as previous the session
\* default it was called with, whatever the scope.
C8_PreviousIsSessionDefault ==
  \A in \in SwitchInputs :
    Result(in).outcome = "ok" => Result(in).previous = mgr.currentModel

\* C8 as amended: a switchModel that returns gives as previous the session
\* default it was called with when the scope contains 'session' or 'all', and
\* null for every other scope (user, room, global); current is the id asked for.
C8_PreviousOnlyForSessionTier ==
  \A in \in SwitchInputs :
    \E r \in {Result(in)} :
      r.outcome = "ok"
        => /\ in[4] \in SessionScopes => r.previous = mgr.currentModel
           /\ in[4] \notin SessionScopes => r.previous = Null
           /\ r.current = in[1]

\* C8 witness: a user-scope switch has returned null as previous although the
\* session default was set
C8_Witness ==
  /\ last.op = "switchModel" /\ last.outcome = "ok"
  /\ last.scope = ScopeUser
  /\ last.previous = Null
  /\ mgr.currentModel = DeepSeek

\* C9: a switchModel that returns has set every tier its scope names: the
\* session default for 'session' and 'all', the preference of the user for
\* 'user' with a user id, the preference of the room for 'room' with a room id,
\* and all of them together for 'user+session' and 'user+room+session'.
C9_EveryNamedTierApplied ==
  \A in \in SwitchInputs :
    \E r \in {Result(in)} :
      r.outcome = "ok"
        => /\ in[4] \in SessionScopes => r.mgr.currentModel = in[1]
           /\ in[4] \in UserScopes /\ in[2] # NoId
                => /\ HasUserPreference(r.mgr, in[2])
                   /\ r.mgr.userPreferences[in[2]] = in[1]
                   /\ mgr.db => \E row \in r.store.user_model_preferences :
                                  row.user_id = in[2] /\ row.model_id = in[1]
           /\ in[4] \in RoomScopes /\ in[3] # NoId
                => /\ HasRoomPreference(r.mgr, in[3])
                   /\ r.mgr.roomPreferences[in[3]] = in[1]
                   /\ mgr.db => \E row \in r.store.room_model_preferences :
                                  row.room_id = in[3] /\ row.model_id = in[1]

\* C9 witness: a 'user+session' switch to DeepSeek has set both the session
\* default and the preference of a user who had none
C9_Witness ==
  /\ last.op = "switchModel" /\ last.outcome = "ok"
  /\ last.scope = ScopeUserSession /\ last.modelId = DeepSeek
  /\ mgr.currentModel = DeepSeek
  /\ \E u \in Users : HasUserPreference(mgr, u) /\ mgr.userPreferences[u] = DeepSeek
  /\ ~HasRoomPreference(mgr, Room1)

\* C10 as claimed: after a switchModel that has returned, the switch history
\* holds an entry for it; a rejected switchModel adds none.
C10_SwitchHistoryRecorded ==
  /\ last.op = "switchModel" /\ last.outcome = "ok"
       => Len(store.model_switch_history) >= 1
  /\ \A in \in SwitchInputs :
       Result(in).outcome # "ok"
         => Result(in).store.model_switch_history = store.model_switch_history

\* C11: whenever the INSERT of recordModelUsage fails at the end of a
\* switchModel, the call ends as the same call without failure does: the same
\* result, the same session default, user and room preferences in the manager
\* and in the preference tables; only the usage row is missing.
C11_TelemetryFailureKeepsSwitch ==
  \A in \in FaultSwitchInputs :
    \E f \in {switchModel(mgr, store, in[1], in[2], in[3], in[4], "usage")} :
      \E r \in {switchModel(mgr, store, in[1], in[2], in[3], in[4], "none")} :
        /\ f.outcome = "ok" /\ r.outcome = "ok"
        /\ f.previous = r.previous /\ f.current = r.current
        /\ f.mgr = r.mgr
        /\ f.store = [r.store EXCEPT !.model_usage_stats = store.model_usage_stats]

\* C11 witness: a 'user+room+session' switch whose usage INSERT failed has
\* returned, with all three tiers on the new model and no usage row written
C11_Witness ==
  /\ last.op = "switchModel" /\ last.fault = "usage" /\ last.outcome = "ok"
  /\ last.scope = ScopeUserRoomSession /\ last.modelId = DeepSeek
  /\ mgr.db
  /\ mgr.currentModel = DeepSeek
  /\ HasUserPreference(mgr, Alice) /\ mgr.userPreferences[Alice] = DeepSeek
  /\ HasRoomPreference(mgr, Room1) /\ mgr.roomPreferences[Room1] = DeepSeek
  /\ \E row \in store.user_model_preferences :
       row.user_id = Alice /\ row.model_id = DeepSeek
  /\ store.model_usage_stats = <<>>

\* C13: saveUserPreference(u, m) resolves; without a record for u it leaves
\* one record for u holding m; with a record it leaves that record holding m
\* with usage_count one higher; and a second call with the same m leaves the
\* model at m and usage_count one higher than after the first.
C13_UpsertCountsEachCall ==
  \A u \in PrefsUsers, m \in AcceptedIdInputs :
    \E first \in {saveUserPreference(store, u, m)} :
      \E second \in {saveUserPreference(first.store, u, m)} :
        \E before \in {SelectUser(store.user_model_preferences, u)},
           mid \in {SelectUser(first.store.user_model_preferences, u)},
           after \in {SelectUser(second.store.user_model_preferences, u)} :
          /\ first.outcome = "ok" /\ second.outcome = "ok"
          /\ Cardinality(mid) = 1 /\ Cardinality(after) = 1
          /\ \A r \in mid : r.model_id = m
          /\ \A r \in after : r.model_id = m
          /\ \A b \in before, r \in mid : r.usage_count = b.usage_count + 1
          /\ \A r \in mid, a \in after : a.usage_count = r.usage_count + 1

\* C13 witness: saveUserPreference has been called on an existing record with
\* another model; the record holds the new model and counts three calls
C13_Witness ==
  /\ last.op = "saveUserPreference" /\ last.outcome = "ok"
  /\ last.key = Alice /\ last.modelId = DeepSeek
  /\ SelectUser(store.user_model_preferences, Alice)
       = {[user_id |-> Alice, model_id |-> DeepSeek, usage_count |-> 3]}

\* C14: in every state reached by saveUserPreference, saveRoomPreference and
\* switchModel calls no two rows share a user id or a room id; each of these
\* calls leaves the row of its key holding the model it was given and every
\* row of another key as it was.
C14_OneRowPerKeyLastWriteWins ==
  /\ \A u \in Users : Cardinality(SelectUser(store.user_model_preferences, u)) <= 1
  /\ \A q \in Rooms : Cardinality(SelectRoom(store.room_model_preferences, q)) <= 1
  /\ last.op \in {"saveUserPreference"} /\ last.outcome = "ok"
       => \A r \in SelectUser(store.user_model_preferences, last.key) :
            r.model_id = last.modelId
  /\ last.op \in {"saveRoomPreference"} /\ last.outcome = "ok"
       => \A r \in SelectRoom(store.room_model_preferences, last.key) :
            r.model_id = last.modelId
  /\ \A u \in PrefsUsers, m \in AcceptedIdInputs :
       \E r \in {saveUserPreference(store, u, m).store} :
         /\ \E row \in r.user_model_preferences : row.user_id = u /\ row.model_id = m
         /\ \A v \in Users \ {u} :
              SelectUser(r.user_model_preferences, v)
                = SelectUser(store.user_model_preferences, v)
         /\ r.room_model_preferences = store.room_model_preferences
  /\ \A q \in Rooms, m \in AcceptedIdInputs, by \in SetByInputs :
       \E r \in {saveRoomPreference(store, q, m, by).store} :
         /\ \E row \in r.room_model_preferences : row.room_id = q /\ row.model_id = m
         /\ r.user_model_preferences = store.user_model_preferences
  /\ \A in \in PrefsSwitchInputs :
       \E r \in {Result(in).store} :
         /\ in[4] = ScopeUser
              => /\ \A row \in SelectUser(r.user_model_preferences, in[2]) :
                      row.model_id = in[1]
                 /\ SelectUser(r.user_model_preferences, in[2]) # {}
                 /\ \A v \in Users \ {in[2]} :
                      SelectUser(r.user_model_preferences, v)
                        = SelectUser(store.user_model_preferences, v)
                 /\ r.room_model_preferences = store.room_model_preferences
         /\ in[4] = ScopeRoom
              => /\ \A row \in SelectRoom(r.room_model_preferences, in[3]) :
                      row.model_id = in[1]
                 /\ SelectRoom(r.room_model_preferences, in[3]) # {}
                 /\ r.user_model_preferences = store.user_model_preferences

\* C14 witness: switchModel has overwritten a record that saveUserPreference
\* had written, next to the record of another user and one of the room
C14_Witness ==
  /\ last.op = "switchModel" /\ last.outcome = "ok"
  /\ last.scope = ScopeUser /\ last.modelId = DeepSeek
  /\ \E row \in store.user_model_preferences :
       row.model_id = DeepSeek /\ row.usage_count = 0
  /\ \E row \in store.user_model_preferences :
       row.model_id = Kimi /\ row.usage_count = 2
  /\ \E row \in store.room_model_preferences :
       row.room_id = Room1 /\ row.set_by_user = "system"

\* C15 as claimed: no step (saveUserPreference, saveRoomPreference,
\* switchModel) leaves the usage_count of a user's record lower than it was.
C15_UsageCountNeverDecreases ==
  [][ \A u \in Users :
        \A old \in SelectUser(store.user_model_preferences, u),
           new \in SelectUser(store'.user_model_preferences, u) :
          new.usage_count >= old.usage_count ]_vars

\* C12 as claimed: every recordUsage and every recordSwitch call completes
\* normally, also when its INSERT fails.
C12_TelemetryNeverRaises ==
  last.op \in {"recordUsage", "recordSwitch"} => last.outcome = "ok"

\* the point in time a timestamp was written at, read from its digits
TimeOf(timestamp) ==
  [ day |-> CHOOSE n \in 0..9 : DigitOf(n) = timestamp[1],
    tick |-> CHOOSE n \in 0..9 : DigitOf(n) = timestamp[3] ]

Older(a, b) == a.day < b.day \/ (a.day = b.day /\ a.tick < b.tick)

\* C17 as claimed: in every state, cleanupOldRecords(d) leaves exactly the
\* usage rows that are not older than now minus d days, whoever wrote them,
\* and returns the number of rows it removed.
C17_CleanupDeletesExactlyOlderRows ==
  \A d \in DaysToKeepInputs :
    now.day >= d
      => \E r \in {cleanupOldRecords(store, now, d)} :
           /\ r.store.model_usage_stats
                = SelectSeq(store.model_usage_stats,
                            LAMBDA row : ~Older(TimeOf(row.timestamp),
                                                [now EXCEPT !.day = @ - d]))
           /\ r.recordsDeleted
                = Len(store.model_usage_stats) - Len(r.store.model_usage_stats)

IsPrefix(s, t) == Len(s) <= Len(t) /\ \A i \in 1..Len(s) : s[i] = t[i]

C16_ConcurrentUpsertsSerialize ==
  /\ \A c \in Conns : conn[c].pc = "done" => conn[c].outcome = "ok"
  /\ (\A c \in Conns : conn[c].pc = "done")
       => /\ Cardinality(SelectUser(store.user_model_preferences, Alice)) = 1
          /\ \A r \in SelectUser(store.user_model_preferences, Alice) :
               r.usage_count = conn[1].finished + conn[2].finished

\* the message holds none of the trigger words of ModelManager.detectSwitchIntent
NoSwitchKeyword(message) ==
  \E lowerMessage \in {toLowerCase(message)} :
    \A keyword \in switchKeywords : ~Includes(lowerMessage, keyword)

\* the message holds none of the trigger words of the handler's detection
NoHandlerSwitchKeyword(message) ==
  \E lowerMessage \in {toLowerCase(message)} :
    \A keyword \in HandlerSwitchKeywords : ~Includes(lowerMessage, keyword)

\* the message names a model of the catalog and holds a scope word
NamesModelAndScope(message, m) ==
  /\ FirstModel(toLowerCase(message), m.availableModels) # Null
  /\ DetectScope(toLowerCase(message), HandlerScopeKeywords, 1, ScopeSession)
       # ScopeSession

\* C19: a message without a trigger word gives null in detectSwitchIntent and
\* in the handler's detectModelSwitchIntent, each with its own trigger words and
\* whatever models and scopes the message names (the message about the weather
\* among them), and handleNaturalLanguage then applies no switch: the manager
\* is the one initialize built, no table has a row, and the message goes to
\* the AI (or, when the typing notice fails, is answered with the error).
C19_NoTriggerNoIntent ==
  /\ last.op = "detectSwitchIntent" /\ NoSwitchKeyword(input)
       => last.intent = NoIntent
  /\ last.op = "detectModelSwitchIntent" /\ NoHandlerSwitchKeyword(input)
       => last.intent = NoIntent
  /\ last.op = "handleNaturalLanguage" /\ NoHandlerSwitchKeyword(input)
       => /\ last.intent \in {NoIntent, NotRun}
          /\ ~last.switched
          /\ mgr = initialize(EmptyStore, env)
          /\ store = EmptyStore
          /\ sent.kind \in {"ai", "error"}
  /\ last.op \in {"detectSwitchIntent", "detectModelSwitchIntent",
                  "handleNaturalLanguage"} /\ input = Weather
       => last.intent \in {NoIntent, NotRun}

\* handleNaturalLanguage has run on a message that names a model and a scope
\* but holds no trigger word of either detection
C19_Witness ==
  /\ last.op = "handleNaturalLanguage"
  /\ NoSwitchKeyword(input)
  /\ NamesModelAndScope(input, mgr)
  /\ last.intent = NoIntent
  /\ sent.kind = "ai"

\* C20 as stated: with the default catalog, detectSwitchIntent on
\* '切换到 deepseek 永久保存' returns the DeepSeek model, scope 'user' and
\* confidence 'high'.
C20_DeepseekForGoodIsHigh ==
  /\ last.op = "detectSwitchIntent"
  /\ input = SwitchToDeepseekForGood
  /\ mgr.availableModels = getDefaultModels
  => last.intent = Intent(DeepSeek, ScopeUser, "high")

\* C20, amended: with the default catalog, detectSwitchIntent on
\* '切换到 deepseek 永久保存' returns the DeepSeek model and scope 'user' with
\* confidence 'low': the brand name is the only keyword of the model in the
\* message, and its 4 points are below the 5 of 'medium'.
C20_DeepseekForGoodIsLow ==
  /\ last.op = "detectSwitchIntent"
  /\ input = SwitchToDeepseekForGood
  /\ mgr.availableModels = getDefaultModels
  => last.intent = Intent(DeepSeek, ScopeUser, "low")

\* detectSwitchIntent has run on that message with the default catalog
C20_Witness ==
  /\ last.op = "detectSwitchIntent"
  /\ input = SwitchToDeepseekForGood
  /\ mgr.availableModels = getDefaultModels
  /\ last.intent.modelId = DeepSeek

\* modelScore of detectSwitchIntent for one model of the catalog
ModelScore(lowerMessage, modelId) ==
  SumScores(lowerMessage, KeywordsOf[modelId], modelId)

\* the brand synonyms: deepseek 深度求索 kimi 月之暗面 gpt openai chatgpt claude
\* anthropic gemini 谷歌
BrandSynonyms ==
  { <<"d", "e", "e", "p", "s", "e", "e", "k">>, <<"U6DF1", "U5EA6", "U6C42", "U7D22">>, <<"k", "i", "m", "i">>, <<"U6708", "U4E4B", "U6697", "U9762">>, <<"g", "p", "t">>, <<"o", "p", "e", "n", "a", "i">>,
    <<"c", "h", "a", "t", "g", "p", "t">>, <<"c", "l", "a", "u", "d", "e">>, <<"a", "n", "t", "h", "r", "o", "p", "i", "c">>, <<"g", "e", "m", "i", "n", "i">>, <<"U8C37", "U6B4C">> }

\* the points by tier, with every brand synonym in the brand tier
TierScore(keyword, modelId) ==
  IF IsVersion(keyword) THEN 10
  ELSE IF \E i \in 1..Len(keyword) : keyword[i] = "/" THEN 8
  ELSE IF keyword = ModelNamePart(modelId) THEN 6
  ELSE IF keyword \in BrandSynonyms THEN 4
  ELSE 2

RECURSIVE SumTierScores(_, _, _)
SumTierScores(lowerMessage, keywords, modelId) ==
  IF keywords = <<>> THEN 0
  ELSE SumTierScores(lowerMessage, Tail(keywords), modelId)
         + (IF Includes(lowerMessage, Head(keywords))
              THEN TierScore(Head(keywords), modelId) ELSE 0)

\* C21: after detectSwitchIntent on a message with a trigger word, the score of every model of the catalog is
\* the sum over its keywords found in the lower-cased message of 10 for a
\* version number, 8 for a keyword with '/', 6 for the model name, 4 for a brand
\* synonym (each of the eleven) and 2 for any other keyword.
C21_ScoreBySpecificity ==
  last.op = "detectSwitchIntent" /\ ~NoSwitchKeyword(input)
    => \E lowerMessage \in {toLowerCase(input)} :
         \A i \in 1..Len(mgr.availableModels) :
           ModelScore(lowerMessage, mgr.availableModels[i])
             = SumTierScores(lowerMessage, KeywordsOf[mgr.availableModels[i]],
                             mgr.availableModels[i])

\* the first scope of the table, in table order, one of whose words is in the
\* message; 'session' when there is none
FirstScope(lowerMessage, table) ==
  IF \E i \in 1..Len(table) : \E word \in table[i].words : Includes(lowerMessage, word)
    THEN table[CHOOSE i \in 1..Len(table) :
                 /\ \E word \in table[i].words : Includes(lowerMessage, word)
                 /\ \A j \in 1..(i - 1) :
                      \A word \in table[j].words : ~Includes(lowerMessage, word)].scope
    ELSE ScopeSession

\* a detection has returned a switch
Detected(op) == last.op = op /\ last.intent \notin {NoIntent, NotRun, Thrown}

\* C23: when a detection (detectSwitchIntent, or detectModelSwitchIntent alone
\* or in handleNaturalLanguage) returns a switch for a message without
\* permanent keyword, the scope is the first scope in the order session, user,
\* room, global that has a keyword in the message, and 'session' when no scope
\* has one.
C23_FirstScopeInTableOrder ==
  \E lowerMessage \in {toLowerCase(input)} :
    /\ (/\ Detected("detectSwitchIntent")
        /\ \A word \in permanentKeywords : ~Includes(lowerMessage, word))
         => last.intent.scope = FirstScope(lowerMessage, scopeKeywords)
    /\ (/\ Detected("detectModelSwitchIntent") \/ Detected("handleNaturalLanguage")
        /\ \A word \in permanentKeywords : ~Includes(lowerMessage, word))
         => last.intent.scope = FirstScope(lowerMessage, HandlerScopeKeywords)

\* C24: when a detection (detectSwitchIntent, or detectModelSwitchIntent alone
\* or in handleNaturalLanguage) returns a switch for a message with one of the
\* permanent keywords 永久, 保存, 偏好, persistent, preference, the scope is 'user',
\* whatever scope keywords the message has.
C24_PermanentForcesUser ==
  \E lowerMessage \in {toLowerCase(input)} :
    (/\ last.op \in {"detectSwitchIntent", "detectModelSwitchIntent",
                     "handleNaturalLanguage"}
     /\ last.intent \notin {NoIntent, NotRun, Thrown}
     /\ \E word \in permanentKeywords : Includes(lowerMessage, word))
      => last.intent.scope = ScopeUser

\* C26 as stated: handleNaturalLanguage calls the completion (session.prompt or
\* callAIApi) only when the detection returned null for the message.
C26_CompletionOnlyWithoutIntent ==
  last.op = "handleNaturalLanguage" /\ last.completion
    => last.intent = NoIntent

\* C26, amended: handleNaturalLanguage calls the completion only when the
\* detection returned null or a statement of the switch attempt threw (the
\* detection, switchModel, sending the confirmation, clearing the typing
\* notice); a switch that was detected, applied and confirmed with the typing
\* notice cleared is answered with the confirmation, without completion call.
C26_CompletionWithoutIntentOrAfterFailure ==
  last.op = "handleNaturalLanguage"
    => /\ last.completion => last.intent = NoIntent \/ last.outcome # "ok"
       /\ last.intent \notin {NoIntent, NotRun} /\ last.outcome = "ok"
            => ~last.completion /\ last.switched /\ sent.kind = "switched"

\* a switch to the user tier was detected, the database refused the upsert,
\* and the message went to the completion
C26_Witness ==
  /\ last.op = "handleNaturalLanguage"
  /\ last.intent \notin {NoIntent, NotRun, Thrown}
  /\ last.intent.scope = ScopeUser
  /\ last.fault = "user"
  /\ last.outcome = "StorageError"
  /\ last.completion
  /\ sent.kind = "ai"

\* C27: when nothing fails, handleNaturalLanguage switches to the model and
\* scope that ModelManager.detectSwitchIntent returns for the message, and does
\* not switch when detectSwitchIntent returns null.
C27_HandlerAppliesScoredDetection ==
  last.op = "handleNaturalLanguage" /\ last.fault = "none"
    => \E d \in {detectSwitchIntent(initialize(EmptyStore, env), input)} :
         IF d = NoIntent
           THEN ~last.switched
           ELSE /\ last.switched
                /\ last.intent.modelId = d.modelId
                /\ last.intent.scope = d.scope

\* the scores of the models of the catalog for a message, in catalog order
Scores(lowerMessage, models) ==
  [i \in 1..Len(models) |-> ModelScore(lowerMessage, models[i])]

C25_DetectionNeverThrows ==
  last.op \in {"detectSwitchIntent", "detectModelSwitchIntent"}
    => last.intent # Thrown

\* the source yields models
LiveYields(e) == e.live.present /\ e.live.ok /\ Len(e.live.models) > 0
ConfigYields(e) == e.config.ok /\ Len(e.config.models) > 0

\* C28: the catalog of an initialized manager is the live list when that
\* yields models, otherwise the list of the configuration file when that
\* yields models, otherwise the default list; it is never empty.
C28_CatalogFromFirstSourceWithModels ==
  /\ mgr.availableModels =
       IF LiveYields(env) THEN env.live.models
       ELSE IF ConfigYields(env) THEN env.config.models
       ELSE getDefaultModels
  /\ Len(mgr.availableModels) > 0

\* C29 as stated: without a database getCurrentModel gives the session tier
\* for every user and room, a switch that names the user or room tier records
\* no preference, and the session tier of the same call is switched.
C29_NoPreferenceWithoutStore ==
  ~env.dbOpens
    => /\ \A u \in UserIdInputs, q \in RoomIdInputs :
            getCurrentModel(mgr, u, q) = mgr.currentModel
       /\ DOMAIN mgr.userPreferences = {}
       /\ DOMAIN mgr.roomPreferences = {}
       /\ (last.op = "handleModelSwitch" /\ last.outcome = "ok"
             /\ SessionScope(last.scope))
            => mgr.currentModel = last.modelId

\* C29, amended: without a database nothing is written to the store and a
\* newly initialized manager gives the session default for every user and
\* room; a switch that names the user or room tier succeeds and keeps the
\* preference in the maps of its manager, where getCurrentModel finds it, and
\* the session tier of the same call is switched.
C29_PreferenceInMemoryWithoutStore ==
  ~env.dbOpens
    => /\ store = EmptyStore
       /\ last.op \in {"new", "handleModelCurrent"}
            => \A u \in UserIdInputs, q \in RoomIdInputs :
                 getCurrentModel(mgr, u, q) = Kimi
       /\ last.op = "handleModelCurrent" => sent.current = Kimi
       /\ (last.op = "handleModelSwitch" /\ last.modelId \in AcceptedIdInputs)
            => /\ last.outcome = "ok"
               /\ sent.kind = "switched"
               /\ SessionScope(last.scope) => mgr.currentModel = last.modelId
               /\ ~SessionScope(last.scope) => mgr.currentModel = Kimi
               /\ (ScopeUser \in ScopeIncludes[last.scope]
                     \/ ScopeRoom \in ScopeIncludes[last.scope])
                    => getCurrentModel(mgr, sent.user, sent.roomId) = last.modelId
               /\ ScopeUser \in ScopeIncludes[last.scope]
                    => /\ sent.user \in DOMAIN mgr.userPreferences
                       /\ mgr.userPreferences[sent.user] = last.modelId

\* '!opencode switch <deepseek> user' without a database: the reply reports the
\* switch, the session tier is untouched and the preference is in the map
C29_Witness ==
  /\ ~env.dbOpens
  /\ last.op = "handleModelSwitch"
  /\ last.outcome = "ok"
  /\ last.scope = ScopeUser
  /\ last.modelId = DeepSeek
  /\ mgr.currentModel = Kimi
  /\ getCurrentModel(mgr, sent.user, sent.roomId) = DeepSeek
  /\ store = EmptyStore

\* the list is empty or holds the id, letter case aside
Matched(id, list) ==
  Len(list) = 0 \/ \E i \in 1..Len(list) : toLowerCase(id) = toLowerCase(list[i])

\* C30: an event sent by the bot, or by a user a non-empty allowed-users list
\* does not match, or in a room a non-empty allowed-rooms list does not match,
\* sends no message, reaches no handler, switches no model, writes nothing and
\* asks for no completion; a message of another sender that both lists match
\* (an empty list matches every id, letter case is ignored) reaches a handler.
C30_OnlyAllowedEventsAreHandled ==
  [][last'.op = "room.message"
       => /\ (\/ input'.sender = BotUserId
              \/ ~Matched(input'.sender, env.allowedUsers)
              \/ ~Matched(input'.roomId, env.allowedRooms))
               => /\ last'.handler = "none"
                  /\ ~last'.replied /\ ~last'.switched /\ ~last'.completion
                  /\ sent' = sent /\ store' = store /\ mgr' = mgr
          /\ (/\ input'.type = "m.room.message"
              /\ input'.sender # BotUserId
              /\ Matched(input'.sender, env.allowedUsers)
              /\ Matched(input'.roomId, env.allowedRooms))
               => last'.handler # "none" /\ last'.replied]_vars

\* a switch command of a user the list of two does not hold, in a room the
\* room list holds in other letter case: dropped, nothing sent or written
C30_Witness ==
  /\ last.op = "room.message"
  /\ last.handler = "none"
  /\ input.sender \notin {BotUserId} \cup {env.allowedUsers[i] : i \in DOMAIN env.allowedUsers}
  /\ ~Matched(input.sender, env.allowedUsers)
  /\ Len(env.allowedUsers) = 2
  /\ Matched(input.roomId, env.allowedRooms)
  /\ Len(env.allowedRooms) = 1
  /\ startsWith(input.body, OpencodePrefix)
  /\ Len(input.body) > Len(OpencodePrefix)
  /\ sent = NoMessage
  /\ store \in GateStoreInputs

\* the branch of the room.message handler a handler belongs to
BranchOf(handler) ==
  IF handler \in {"command", "commandUsage", "unknownCommand", "handleModelSwitch",
                  "handleModelCurrent"}
    THEN "handleMatrixCommand"
    ELSE handler

\* the first of the six cases an event falls under, in the order of the claim
FirstBranch(event) ==
  CASE event.msgtype = "m.file" -> "handleFileEvent"
    [] event.msgtype # "m.file" /\ event.msgtype = "m.image" -> "handleImageEvent"
    [] event.msgtype \notin {"m.file", "m.image"}
         /\ startsWith(event.body, <<"!", "o", "p", "e", "n", "c", "o", "d", "e">>) -> "handleMatrixCommand"
    [] event.msgtype \notin {"m.file", "m.image"}
         /\ startsWith(event.body, <<"!", "h", "e", "l", "p">>) -> "sendHelpMessage"
    [] event.msgtype \notin {"m.file", "m.image"}
         /\ startsWith(event.body, <<"!", "s", "t", "a", "t", "u", "s">>) -> "sendStatusMessage"
    [] OTHER -> "handleNaturalLanguage"

\* C31: an m.room.message event that passes the sender and room checks reaches
\* the one handler of the first case it falls under: m.file, m.image, body
\* starting with '!opencode', with '!help', with '!status', otherwise the
\* natural-language handler; an event of another type reaches none.
C31_OneBranchInOrder ==
  last.op = "room.message"
    => /\ input.type # "m.room.message" => last.handler = "none"
       /\ (/\ input.type = "m.room.message"
           /\ input.sender # BotUserId
           /\ Matched(input.sender, env.allowedUsers)
           /\ Matched(input.roomId, env.allowedRooms))
            => BranchOf(last.handler) = FirstBranch(input)

\* a file message whose body is a command: the file handler takes it
C31_Witness ==
  /\ last.op = "room.message"
  /\ input.msgtype = "m.file"
  /\ startsWith(input.body, OpencodePrefix)
  /\ last.handler = "handleFileEvent"
  /\ sent.kind = "handleFileEvent"

\* the preference of a key in a map, Null when it has none
PreferenceOf(map, key) == IF key \in DOMAIN map THEN map[key] ELSE Null

\* the model stored for a user or a room, Null when no row is stored
StoredUser(s, u) ==
  IF \E r \in s.user_model_preferences : r.user_id = u
    THEN (CHOOSE r \in s.user_model_preferences : r.user_id = u).model_id
    ELSE Null
StoredRoom(s, q) ==
  IF \E r \in s.room_model_preferences : r.room_id = q
    THEN (CHOOSE r \in s.room_model_preferences : r.room_id = q).model_id
    ELSE Null

\* C32: a switchModel that returns with scope 'user' for user u leaves the
\* session default, every room preference and the preference of every other
\* user as they were, in the maps and in the tables, so getCurrentModel of
\* every other user in every room gives what it gave before; with scope 'room'
\* for room r it leaves the session default, every user preference and the
\* preference of every other room as they were.
C32_SwitchChangesOnlyItsKey ==
  [][(last'.op = "switchModel" /\ last'.outcome = "ok")
       => /\ last'.scope = ScopeUser
               => /\ mgr'.currentModel = mgr.currentModel
                  /\ mgr'.roomPreferences = mgr.roomPreferences
                  /\ store'.room_model_preferences = store.room_model_preferences
                  /\ mgr'.userPreferences[last'.userId] = last'.modelId
                  /\ \A v \in Users \ {last'.userId} :
                       /\ PreferenceOf(mgr'.userPreferences, v)
                            = PreferenceOf(mgr.userPreferences, v)
                       /\ StoredUser(store', v) = StoredUser(store, v)
                       /\ \A q \in FrameRooms \cup {NoId} :
                            getCurrentModel(mgr', v, q) = getCurrentModel(mgr, v, q)
          /\ last'.scope = ScopeRoom
               => /\ mgr'.currentModel = mgr.currentModel
                  /\ mgr'.userPreferences = mgr.userPreferences
                  /\ store'.user_model_preferences = store.user_model_preferences
                  /\ mgr'.roomPreferences[last'.roomId] = last'.modelId
                  /\ \A q \in FrameRooms \ {last'.roomId} :
                       /\ PreferenceOf(mgr'.roomPreferences, q)
                            = PreferenceOf(mgr.roomPreferences, q)
                       /\ StoredRoom(store', q) = StoredRoom(store, q)
                       /\ \A v \in Users \cup {NoId} :
                            getCurrentModel(mgr', v, q)
                              = getCurrentModel(mgr, v, q)]_vars

\* bob has a preference and room2 has one; alice then switches for herself:
\* bob, the rooms and the session default keep their models
C32_Witness ==
  /\ last.op = "switchModel"
  /\ last.outcome = "ok"
  /\ last.scope = ScopeUser
  /\ last.userId = "@alice:hs"
  /\ last.modelId = DeepSeek
  /\ PreferenceOf(mgr.userPreferences, "@bob:hs") = Kimi
  /\ PreferenceOf(mgr.roomPreferences, "!room2:hs") = Kimi
  /\ getCurrentModel(mgr, "@alice:hs", "!room2:hs") = DeepSeek
  /\ getCurrentModel(mgr, "@bob:hs", "!room1:hs") = Kimi
  /\ getCurrentModel(mgr, NoId, "!room2:hs") = Kimi

\* C33: on a manager with an open database the preference maps and the
\* preference tables hold the same model for every user and every room after
\* every switchModel call, whether it returned or raised.
C33_MapsAgreeWithTables ==
  mgr.db
    => /\ \A u \in Users :
            PreferenceOf(mgr.userPreferences, u) = StoredUser(store, u)
       /\ \A q \in Rooms :
            PreferenceOf(mgr.roomPreferences, q) = StoredRoom(store, q)

\* C34: when the awaited initialize() has returned, the catalog is loaded, the
\* database is open when it can be opened and the stored preferences are in the
\* maps; and no later step of the run the constructor started changes
\* availableModels, the preference maps or the database handle.
C34_AwaitedInitializeIsFinal ==
  [][conn'[AwaitedRun].pc = "done"
       => /\ mgr'.availableModels = initialize(store', env).availableModels
          /\ mgr'.db = env.dbOpens
          /\ \A u \in Users :
               (env.dbOpens /\ StoredUser(store', u) # Null)
                 => PreferenceOf(mgr'.userPreferences, u) = StoredUser(store', u)
          /\ (conn[AwaitedRun].pc = "done"
                /\ conn'[ConstructorRun] # conn[ConstructorRun])
               => /\ mgr'.availableModels = mgr.availableModels
                  /\ mgr'.userPreferences = mgr.userPreferences
                  /\ mgr'.roomPreferences = mgr.roomPreferences
                  /\ mgr'.db = mgr.db
                  /\ mgr'.handle = mgr.handle]_vars

\* the connections made and not closed
OpenConnections == pstore.opened \ pstore.closed

\* C35: operations started together on a new store open the database once:
\* at most one connection is made while none has been closed, no step replaces
\* a connection that is open, and initialized is set only while this.db is an
\* open connection.
C35_DatabaseOpenedOnce ==
  [][/\ pstore'.closed = {} => Cardinality(pstore'.opened) <= 1
     /\ (pstore.db # 0 /\ pstore.db \notin pstore.closed) => pstore'.db = pstore.db
     /\ pstore'.initialized => pstore'.db \in pstore'.opened \ pstore'.closed]_vars

\* C36: whenever the handler has turned the typing indicator on, it calls
\* setTyping(roomId, false) later in the same run, on every path.
C36_TypingTurnedOffOnEveryPath ==
  last.op = "handleNaturalLanguage"
    => \A i \in DOMAIN last.trace :
         last.trace[i] = Ev("setTyping", TRUE, TRUE)
           => \E j \in DOMAIN last.trace :
                j > i /\ last.trace[j].call = "setTyping" /\ last.trace[j].arg = FALSE

\* the calls of a run that are sendMessage calls of a kind, failed or not
Sends(trace, ok) ==
  {i \in DOMAIN trace : trace[i].call = "sendMessage" /\ trace[i].ok = ok}

\* a call of the run before position j that failed
FailedBefore(trace, j, calls) ==
  \E i \in 1..(j - 1) :
    ~trace[i].ok /\ <<trace[i].call, trace[i].arg>> \in calls

\* C37: for a message without switch intent the handler asks the OpenCode AI
\* first, calls callAIApi only after the primary attempt (the prompt or the
\* sending of its reply) has failed, sends a template only after the fallback
\* attempt has failed too, and when no sendMessage fails the room receives
\* exactly one message.
C37_PrimaryFallbackTemplateOneReply ==
  (last.op = "handleNaturalLanguage" /\ ~last.intent)
    => /\ \A j \in DOMAIN last.trace :
            /\ last.trace[j].call = "callAIApi"
                 => FailedBefore(last.trace, j,
                                 {<<"prompt", "">>, <<"sendMessage", "ai">>})
            /\ (last.trace[j].call = "sendMessage" /\ last.trace[j].arg = "template")
                 => /\ FailedBefore(last.trace, j,
                                    {<<"prompt", "">>, <<"sendMessage", "ai">>})
                    /\ FailedBefore(last.trace, j,
                                    {<<"callAIApi", "">>, <<"sendMessage", "fallback">>})
       /\ last.trace[1] = Ev("setTyping", TRUE, TRUE)
            => last.trace[2].call = "prompt"
       /\ Sends(last.trace, FALSE) = {}
            => Cardinality(Sends(last.trace, TRUE)) = 1

\* the event has a media URL: content.url, or the url of content.file
HasMediaUrl(content) == content.url # "none" \/ content.file

\* C38: handleFileMessage returns error = true for a file whose declared size
\* exceeds maxFileSize without a fetch or a decryption, it never throws, every
\* failure (no media URL, file too large, no endpoint delivered the file,
\* decryption failed) gives a result with error = true, and when no sendMessage
\* fails handleFileEvent sends exactly one message for such a result.
C38_FileFailuresReportedOnce ==
  (last.op = "handleFileEvent" /\ last.called)
    => /\ ~last.result.thrown
       /\ (HasMediaUrl(input.content) /\ input.content.size > maxFileSize)
            => last.result.error /\ last.result.trace = <<>>
       /\ ~HasMediaUrl(input.content) => last.result.error
       /\ (input.content.url = "mxc"
             /\ \A i \in 1..3 : input.world.endpoints[i] # "ok")
            => last.result.error
       /\ (input.content.url = "none" /\ input.content.file
             /\ ~(input.world.crypto /\ input.world.decrypts))
            => last.result.error
       /\ (last.result.error /\ Sends(last.trace, FALSE) = {})
            => Cardinality(Sends(last.trace, TRUE)) = 1

====
